---- MODULE Spec2Model ----
(***************************************************************************)
(* Conversation store, chat orchestration, gateway client and HTTP surface *)
(* (chat, echo, analyze and structured-output endpoints) of the            *)
(* pydantic-structured-output-demo web backend (webapp/llm, webapp/api).   *)
(*                                                                         *)
(* Text is a sequence of one-character strings, so that str.strip() and    *)
(* min_length are computed and not assumed.  JSON values are tagged        *)
(* records.  A ConversationContext is its conversation_id and its ordered  *)
(* messages; an LLMMessage is role, content and timestamp.                 *)
(***************************************************************************)
EXTENDS Integers, Sequences, FiniteSets, TLC

VARIABLES
    conversations,  \* ConversationManager._conversations : id -> ConversationContext
    now,            \* datetime.utcnow(), in whole seconds
    last,           \* the store operation that completed last, with what it returned
    llm_service,    \* routes.llm_service : TRUE once the global LLMService exists
    client,         \* LLMService._client : "None" or "open"
    tasks,          \* the /chat requests in progress, one record per request slot
    answered,       \* the /chat request answered last, as its slot stood then
    echoLog,        \* the echo requests answered so far: body and response
    uuids,          \* the number of identifiers uuid.uuid4() has handed out
    served,         \* the /analyze or /structured-output request answered last
    probe,          \* the LLMClient call made last, with what it built or returned
    built,          \* the entity of schemas.py constructed last, with the outcome
    pool            \* the LLMClient objects one LLMService created, and its cleanups

vars == <<conversations, now, last, llm_service, client, tasks, answered, echoLog,
          uuids, served, probe, built, pool>>

(***************************************************************************)
(* Bounds of the model.                                                    *)
(***************************************************************************)
MaxMsgs == 3        \* messages held by the store, all conversations together
MaxTime == 1        \* last value of the clock
MaxLimit == 3       \* history limits range over -MaxLimit..MaxLimit
MaxHistory == 4     \* messages the /chat requests may leave in the store
MaxEcho == 2        \* echo requests recorded
MaxWindow == 14     \* messages the /chat requests may leave in a long conversation
MaxClients == 4     \* LLMClient objects one LLMService creates

(***************************************************************************)
(* Text.                                                                   *)
(***************************************************************************)
SP == " "
Whitespace == {SP, "\n", "\t", "\r"}

RECURSIVE lstrip(_)
lstrip(s) == IF s # <<>> /\ Head(s) \in Whitespace THEN lstrip(Tail(s)) ELSE s

RECURSIVE rstrip(_)
rstrip(s) ==
    IF s # <<>> /\ s[Len(s)] \in Whitespace
    THEN rstrip(SubSeq(s, 1, Len(s) - 1))
    ELSE s

\* str.strip()
strip(s) == rstrip(lstrip(s))

\* seq[start:] of Python, for any integer start
PySliceFrom(s, start) ==
    LET n == Len(s)
        b == IF start < 0
             THEN (IF n + start < 0 THEN 0 ELSE n + start)
             ELSE (IF start > n THEN n ELSE start)
    IN  SubSeq(s, b + 1, n)

(***************************************************************************)
(* JSON values, as request.get_json and response.json() hand them over.    *)
(* Numbers are integers; a temperature is held in tenths (7 is 0.7).       *)
(***************************************************************************)
JNull == [t |-> "null"]
JNum(n) == [t |-> "num", n |-> n]
JStr(s) == [t |-> "str", s |-> s]
JList(xs) == [t |-> "list", xs |-> xs]
JObj(f) == [t |-> "obj", f |-> f]

JBool(b) == [t |-> "bool", b |-> b]

\* a field a JSON object does not carry, and a body that is no JSON at all
Absent == [t |-> "absent"]
Malformed == [t |-> "malformed"]

\* the object holding the fields of r that are not Absent
MkObj(r) == JObj([k \in {x \in DOMAIN r : r[x].t # "absent"} |-> r[k]])

\* dict.get(key, default)
Get(obj, key, default) == IF key \in DOMAIN obj.f THEN obj.f[key] ELSE default

\* bool(value) of Python
Truthy(j) ==
    CASE j.t = "null" -> FALSE
      [] j.t = "num" -> j.n # 0
      [] j.t = "str" -> j.s # <<>>
      [] j.t = "list" -> j.xs # <<>>
      [] j.t = "obj" -> DOMAIN j.f # {}
      [] j.t = "bool" -> j.b
      [] OTHER -> FALSE

(***************************************************************************)
(* json.loads on a text: the JSON grammar with null, true, false,          *)
(* integers, strings without escape sequences, arrays and objects.  A      *)
(* parse yields the value and the position after it, or fails.             *)
(***************************************************************************)
JsonWhitespace == {" ", "\n", "\t", "\r"}
Digits == {"0", "1", "2", "3", "4", "5", "6", "7", "8", "9"}

DigitValue(c) ==
    CASE c = "0" -> 0 [] c = "1" -> 1 [] c = "2" -> 2 [] c = "3" -> 3
      [] c = "4" -> 4 [] c = "5" -> 5 [] c = "6" -> 6 [] c = "7" -> 7
      [] c = "8" -> 8 [] OTHER -> 9

ParseFail == [ok |-> FALSE, value |-> JNull, next |-> 0]
ParseOk(value, next) == [ok |-> TRUE, value |-> value, next |-> next]

RECURSIVE SkipWs(_, _)
SkipWs(t, i) ==
    IF i <= Len(t) /\ t[i] \in JsonWhitespace THEN SkipWs(t, i + 1) ELSE i

StartsWith(t, i, w) ==
    i + Len(w) - 1 <= Len(t) /\ SubSeq(t, i, i + Len(w) - 1) = w

\* the position after the digits that start at i
RECURSIVE ScanDigits(_, _)
ScanDigits(t, i) ==
    IF i <= Len(t) /\ t[i] \in Digits THEN ScanDigits(t, i + 1) ELSE i

RECURSIVE NatOf(_)
NatOf(d) ==
    IF d = <<>> THEN 0
    ELSE 10 * NatOf(SubSeq(d, 1, Len(d) - 1)) + DigitValue(d[Len(d)])

\* an integer: an optional minus sign, then 0 or digits that do not start with 0
ParseNumber(t, i) ==
    LET neg == t[i] = "-"
        s == IF neg THEN i + 1 ELSE i
        e == IF s <= Len(t) /\ t[s] = "0" THEN s + 1 ELSE ScanDigits(t, s)
        n == NatOf(SubSeq(t, s, e - 1))
    IN  IF e = s THEN ParseFail
        ELSE ParseOk(JNum(IF neg THEN 0 - n ELSE n), e)

\* the position of the quote that closes the string opened before j, 0 if none
RECURSIVE ScanString(_, _)
ScanString(t, j) ==
    IF j > Len(t) THEN 0
    ELSE IF t[j] = "\"" THEN j
    ELSE IF t[j] \in {"\\", "\n", "\t", "\r"} THEN 0
    ELSE ScanString(t, j + 1)

ParseString(t, i) ==
    LET j == ScanString(t, i + 1)
    IN  IF j = 0 THEN ParseFail ELSE ParseOk(JStr(SubSeq(t, i + 1, j - 1)), j + 1)

\* the characters of a key, as one string
RECURSIVE KeyName(_)
KeyName(cs) == IF cs = <<>> THEN "" ELSE Head(cs) \o KeyName(Tail(cs))

RECURSIVE ParseValue(_, _)
RECURSIVE ParseElements(_, _, _)
RECURSIVE ParseMembers(_, _, _)

\* an array after its element v, which ends before j: a comma and the
\* elements that follow, or the closing bracket
AfterElement(t, v, j, acc) ==
    IF j > Len(t) THEN ParseFail
    ELSE IF t[j] = "," THEN ParseElements(t, j + 1, Append(acc, v.value))
    ELSE IF t[j] = "]" THEN ParseOk(JList(Append(acc, v.value)), j + 1)
    ELSE ParseFail

ContinueArray(t, v, acc) ==
    IF ~v.ok THEN ParseFail ELSE AfterElement(t, v, SkipWs(t, v.next), acc)

\* an object after its member name: v, which ends before j: a comma and the
\* members that follow, or the closing brace; a repeated name keeps the
\* value given last
AfterMember(t, name, v, j, acc) ==
    LET members == [x \in DOMAIN acc \cup {name} |->
                       IF x = name THEN v.value ELSE acc[x]]
    IN  IF j > Len(t) THEN ParseFail
        ELSE IF t[j] = "," THEN ParseMembers(t, j + 1, members)
        ELSE IF t[j] = "}" THEN ParseOk(JObj(members), j + 1)
        ELSE ParseFail

ContinueObject(t, name, v, acc) ==
    IF ~v.ok THEN ParseFail ELSE AfterMember(t, name, v, SkipWs(t, v.next), acc)

\* the member whose name is key, with the colon expected at c
MemberValue(t, key, c, acc) ==
    IF c <= Len(t) /\ t[c] = ":"
    THEN ContinueObject(t, KeyName(key.value.s), ParseValue(t, c + 1), acc)
    ELSE ParseFail

MemberAfterKey(t, key, acc) ==
    IF ~key.ok THEN ParseFail ELSE MemberValue(t, key, SkipWs(t, key.next), acc)

ParseKey(t, k) ==
    IF k <= Len(t) /\ t[k] = "\"" THEN ParseString(t, k) ELSE ParseFail

\* the value that starts at i, after whitespace
ValueAt(t, i) ==
    IF i > Len(t) THEN ParseFail
    ELSE CASE StartsWith(t, i, <<"n", "u", "l", "l">>) -> ParseOk(JNull, i + 4)
           [] StartsWith(t, i, <<"t", "r", "u", "e">>) -> ParseOk(JBool(TRUE), i + 4)
           [] StartsWith(t, i, <<"f", "a", "l", "s", "e">>) ->
                  ParseOk(JBool(FALSE), i + 5)
           [] t[i] = "\"" -> ParseString(t, i)
           [] t[i] \in Digits \cup {"-"} -> ParseNumber(t, i)
           [] t[i] = "[" ->
                  IF StartsWith(t, SkipWs(t, i + 1), <<"]">>)
                  THEN ParseOk(JList(<<>>), SkipWs(t, i + 1) + 1)
                  ELSE ParseElements(t, i + 1, <<>>)
           [] t[i] = "{" ->
                  IF StartsWith(t, SkipWs(t, i + 1), <<"}">>)
                  THEN ParseOk(JObj(<<>>), SkipWs(t, i + 1) + 1)
                  ELSE ParseMembers(t, i + 1, <<>>)
           [] OTHER -> ParseFail

ParseValue(t, i) == ValueAt(t, SkipWs(t, i))

ParseElements(t, i, acc) == ContinueArray(t, ParseValue(t, i), acc)

ParseMembers(t, i, acc) == MemberAfterKey(t, ParseKey(t, SkipWs(t, i)), acc)

\* the whole text is one value
WholeText(text, v) == v.ok /\ SkipWs(text, v.next) > Len(text)

\* json.loads(text): the decoded value, or JSONDecodeError
Decoded(text, v) ==
    IF WholeText(text, v)
    THEN [ok |-> TRUE, value |-> v.value]
    ELSE [ok |-> FALSE, value |-> JNull]

json_loads(text) == Decoded(text, ParseValue(text, 1))

(***************************************************************************)
(* webapp/llm/schemas.py                                                   *)
(***************************************************************************)
MessageRole == {"user", "assistant", "system"}

\* Field(min_length=1), then validate_content: the list of failed constraints
\* of a content string (empty when it is accepted)
ContentErrors(v) ==
    IF Len(v) < 1 THEN <<"string_too_short">>
    ELSE IF strip(v) = <<>> THEN <<"value_error">>
    ELSE <<>>

validate_content(v) == strip(v)

\* LLMMessage(role=..., content=...): ok and the message, or the failed fields
LLMMessage(role, content) ==
    LET roleErr == IF role \in MessageRole THEN <<>> ELSE <<"role">>
        contErr == IF ContentErrors(content) = <<>> THEN <<>> ELSE <<"content">>
    IN  IF roleErr \o contErr = <<>>
        THEN [ok |-> TRUE, errors |-> <<>>,
              value |-> [role |-> role, content |-> validate_content(content),
                         timestamp |-> now]]
        ELSE [ok |-> FALSE, errors |-> roleErr \o contErr,
              value |-> [role |-> role, content |-> <<>>, timestamp |-> now]]

\* ConversationContext(conversation_id=...)
ConversationContext(cid) ==
    [conversation_id |-> cid, messages |-> <<>>, created_at |-> now, updated_at |-> now]

\* an add_message that is no push: it writes the message over the last one
add_message_overwriting(ctx, message) ==
    [ctx EXCEPT !.messages = IF @ = <<>> THEN <<message>>
                             ELSE [@ EXCEPT ![Len(@)] = message],
                !.updated_at = now]

\* ConversationContext.add_message
add_message(ctx, message) ==
    [ctx EXCEPT !.messages = Append(@, message), !.updated_at = now]

\* ConversationContext.get_recent_messages
get_recent_messages(ctx, limit) ==
    IF limit > 0 THEN PySliceFrom(ctx.messages, 0 - limit) ELSE ctx.messages

\* ConversationContext.to_llm_format
to_llm_format(ctx) ==
    [i \in 1..Len(ctx.messages) |->
        [role |-> ctx.messages[i].role, content |-> ctx.messages[i].content]]

\* ChatRequest field bounds and defaults, temperatures in tenths
TemperatureMin == 0
TemperatureMax == 20
TemperatureDefault == 7
MaxTokensMin == 1
MaxTokensMax == 4096

NoReq == [message |-> <<>>, conversation_id |-> JNull, system_prompt |-> JNull,
          temperature |-> JNull, max_tokens |-> JNull]

\* ChatRequest.validate_message
validate_message(v) == strip(v)

\* ChatRequest with gt/lt in place of ge/le: the ends of the ranges are rejected
ChatRequestErrors_exclusive(f) ==
    LET optNum(key, lo, hi) ==
            /\ key \in DOMAIN f
            /\ f[key].t # "null"
            /\ \/ f[key].t # "num"
               \/ f[key].n <= lo
               \/ f[key].n >= hi
        messageBad ==
            \/ "message" \notin DOMAIN f
            \/ f["message"].t # "str"
            \/ ContentErrors(f["message"].s) # <<>>
    IN  (IF messageBad THEN <<"message">> ELSE <<>>)
        \o (IF optNum("temperature", TemperatureMin, TemperatureMax)
            THEN <<"temperature">> ELSE <<>>)
        \o (IF optNum("max_tokens", MaxTokensMin, MaxTokensMax)
            THEN <<"max_tokens">> ELSE <<>>)

\* the fields of a payload object that ChatRequest rejects, in field order
ChatRequestErrors(f) ==
    LET optStr(key) == key \in DOMAIN f /\ f[key].t \notin {"null", "str"}
        optNum(key, lo, hi) ==
            /\ key \in DOMAIN f
            /\ f[key].t # "null"
            /\ \/ f[key].t # "num"
               \/ f[key].n < lo
               \/ f[key].n > hi
        messageBad ==
            \/ "message" \notin DOMAIN f
            \/ f["message"].t # "str"
            \/ ContentErrors(f["message"].s) # <<>>
    IN  (IF messageBad THEN <<"message">> ELSE <<>>)
        \o (IF optStr("conversation_id") THEN <<"conversation_id">> ELSE <<>>)
        \o (IF optStr("system_prompt") THEN <<"system_prompt">> ELSE <<>>)
        \o (IF optNum("temperature", TemperatureMin, TemperatureMax)
            THEN <<"temperature">> ELSE <<>>)
        \o (IF optNum("max_tokens", MaxTokensMin, MaxTokensMax)
            THEN <<"max_tokens">> ELSE <<>>)

\* ChatRequest(**payload) for a payload that is a JSON object
ChatRequest(payload) ==
    LET errors == ChatRequestErrors(payload.f)
    IN  [ok |-> errors = <<>>,
         errors |-> errors,
         value |-> IF errors = <<>>
                   THEN [message |-> validate_message(payload.f["message"].s),
                         conversation_id |-> Get(payload, "conversation_id", JNull),
                         system_prompt |-> Get(payload, "system_prompt", JNull),
                         temperature |-> Get(payload, "temperature",
                                             JNum(TemperatureDefault)),
                         max_tokens |-> Get(payload, "max_tokens", JNull)]
                   ELSE NoReq]

\* ChatChoice(message=..., finish_reason=...)
ChatChoice(message, finish_reason) ==
    [message |-> message, finish_reason |-> finish_reason, index |-> 0]

\* LLMMetadata(model_name=..., temperature=..., generation_time_ms=...)
LLMMetadata(model_name, temperature, generation_time_ms) ==
    [ok |-> temperature.t = "num",
     value |-> [model_name |-> model_name, temperature |-> temperature,
                generation_time_ms |-> generation_time_ms]]

NoResponse == [conversation_id |-> <<>>, choices |-> <<>>,
               metadata |-> [model_name |-> <<>>, temperature |-> JNull,
                             generation_time_ms |-> 0]]

\* ChatResponse(conversation_id=..., choices=..., metadata=...), validate_choices
ChatResponse(conversation_id, choices, metadata) ==
    IF choices = <<>>
    THEN [ok |-> FALSE, errors |-> <<"choices">>, value |-> NoResponse]
    ELSE [ok |-> TRUE, errors |-> <<>>,
          value |-> [conversation_id |-> conversation_id, choices |-> choices,
                     metadata |-> metadata]]

(***************************************************************************)
(* webapp/llm/client.py                                                    *)
(***************************************************************************)
\* LLMConfig()
LLMConfig == [model_name |-> <<"gpt-oss:latest">>, max_tokens |-> JNull,
              temperature |-> JNum(TemperatureDefault)]

\* LLMClient._build_chat_payload; kwargs maps keyword names to values
build_chat_payload(config, messages, kwargs) ==
    LET temperature == IF "temperature" \in DOMAIN kwargs
                       THEN kwargs["temperature"]
                       ELSE config.temperature
    IN  [model |-> config.model_name,
         messages |-> messages,
         stream |-> FALSE,
         options |-> IF Truthy(config.max_tokens)
                     THEN [temperature |-> temperature,
                           num_predict |-> config.max_tokens]
                     ELSE [temperature |-> temperature]]

NoPayload == [model |-> <<>>, messages |-> <<>>, stream |-> FALSE,
              options |-> [temperature |-> JNull]]

\* LLMClient._build_payload; kwargs maps keyword names to values
build_payload(config, prompt, system_prompt, kwargs) ==
    LET temperature == IF "temperature" \in DOMAIN kwargs
                       THEN kwargs["temperature"]
                       ELSE config.temperature
    IN  [model |-> config.model_name,
         prompt |-> prompt,
         stream |-> FALSE,
         options |-> IF Truthy(config.max_tokens)
                     THEN [temperature |-> temperature,
                           num_predict |-> config.max_tokens]
                     ELSE [temperature |-> temperature]]
        @@ (IF Truthy(system_prompt) THEN [system |-> system_prompt] ELSE <<>>)

\* str.split(sep) for a separator of one character
RECURSIVE Split(_, _)
Split(s, sep) ==
    IF \A i \in 1..Len(s) : s[i] # sep THEN <<s>>
    ELSE LET i == CHOOSE k \in 1..Len(s) :
                      s[k] = sep /\ \A m \in 1..(k - 1) : s[m] # sep
         IN  <<SubSeq(s, 1, i - 1)>> \o Split(SubSeq(s, i + 1, Len(s)), sep)

\* w in s, for two strings
Contains(s, w) == \E i \in 1..(Len(s) + 1) : StartsWith(s, i, w)

ResponseKey == <<"r", "e", "s", "p", "o", "n", "s", "e">>

\* one line of a streamed answer: skipped, a part to append, or a TypeError
StreamLine(line) ==
    LET data == json_loads(line)
        skip == [k |-> "skip", part |-> JNull]
        fail == [k |-> "TypeError", part |-> JNull]
    IN  IF line = <<>> \/ ~data.ok THEN skip
        ELSE CASE data.value.t = "obj" ->
                    IF "response" \in DOMAIN data.value.f
                    THEN [k |-> "part", part |-> data.value.f["response"]]
                    ELSE skip
               [] data.value.t = "list" ->
                    IF \E i \in 1..Len(data.value.xs) :
                          data.value.xs[i] = JStr(ResponseKey)
                    THEN fail ELSE skip
               [] data.value.t = "str" ->
                    IF Contains(data.value.s, ResponseKey) THEN fail ELSE skip
               [] OTHER -> fail

RECURSIVE JoinParts(_)
JoinParts(parts) ==
    IF parts = <<>> THEN <<>> ELSE Head(parts).s \o JoinParts(Tail(parts))

\* LLMClient._parse_streaming_response
parse_streaming_response(response_text) ==
    LET lines == Split(strip(response_text), "\n")
        read == [i \in 1..Len(lines) |-> StreamLine(lines[i])]
        parts == SelectSeq(read, LAMBDA r : r.k = "part")
    IN  IF \E i \in 1..Len(read) : read[i].k = "TypeError"
        THEN [raised |-> "TypeError", value |-> JNull]
        ELSE IF \E i \in 1..Len(parts) : parts[i].part.t # "str"
        THEN [raised |-> "TypeError", value |-> JNull]
        ELSE [raised |-> "none",
              value |-> JStr(JoinParts([i \in 1..Len(parts) |-> parts[i].part]))]

\* LLMClient.generate after the POST /api/generate: the value it returns or
\* what it raises for the answer of the remote endpoint (no answer, a non-2xx
\* status, a 2xx line-delimited stream, a 2xx body that is no JSON, a 2xx
\* JSON body)
generate(reply) ==
    CASE reply.k \in {"transport", "status"} ->
            [raised |-> "HTTPError", value |-> JNull]
      [] reply.k = "ndjson" -> parse_streaming_response(reply.text)
      [] reply.k = "undecodable" ->
            [raised |-> "ValueError", value |-> JNull]
      [] OTHER ->
            IF reply.body.t # "obj"
            THEN [raised |-> "AttributeError", value |-> JNull]
            ELSE [raised |-> "none",
                  value |-> Get(reply.body, "response", JStr(<<>>))]

\* What the remote endpoint can answer to POST /api/chat: no answer at all
\* (connection error, timeout), a non-2xx status, a 2xx body that is no JSON,
\* or a 2xx JSON body.
\* LLMClient.chat after the POST: what it returns or raises for that answer
chat(reply) ==
    CASE reply.k \in {"transport", "status"} ->
            [raised |-> "HTTPError", value |-> <<>>]
      [] reply.k = "undecodable" ->
            [raised |-> "ValueError", value |-> <<>>]
      [] OTHER ->
            IF reply.body.t # "obj"
            THEN [raised |-> "AttributeError", value |-> <<>>]
            ELSE LET message == Get(reply.body, "message", JObj(<<>>))
                 IN  IF message.t # "obj"
                     THEN [raised |-> "AttributeError", value |-> <<>>]
                     ELSE [raised |-> "none",
                           value |-> Get(message, "content", JStr(<<>>)).s]

\* LLMClient.health_check after the GET /api/tags: TRUE, FALSE or what it
\* raises.  Only httpx.HTTPError and json.JSONDecodeError are caught; the
\* comprehension over result.get('models', []) iterates a list, the keys of
\* an object or the characters of a string, and calls .get on each.
client_health_check(reply) ==
    CASE reply.k \in {"transport", "status", "undecodable"} ->
            [raised |-> "none", value |-> FALSE]
      [] OTHER ->
            IF reply.body.t # "obj"
            THEN [raised |-> "AttributeError", value |-> FALSE]
            ELSE LET models == Get(reply.body, "models", JList(<<>>))
                 IN  CASE models.t = "list" ->
                            IF \E i \in 1..Len(models.xs) : models.xs[i].t # "obj"
                            THEN [raised |-> "AttributeError", value |-> FALSE]
                            ELSE [raised |-> "none",
                                  value |-> \E i \in 1..Len(models.xs) :
                                      Get(models.xs[i], "name", JStr(<<>>))
                                          = JStr(LLMConfig.model_name)]
                       [] models.t \in {"str", "obj"} ->
                            IF Truthy(models)
                            THEN [raised |-> "AttributeError", value |-> FALSE]
                            ELSE [raised |-> "none", value |-> FALSE]
                       [] OTHER -> [raised |-> "TypeError", value |-> FALSE]

(***************************************************************************)
(* webapp/llm/service.py : ConversationManager.  Each operation is given   *)
(* the mapping and yields the mapping it leaves behind and what it         *)
(* returns or raises.                                                      *)
(***************************************************************************)
get_or_create_conversation(convs, cid) ==
    LET after == IF cid \notin DOMAIN convs
                 THEN [x \in DOMAIN convs \cup {cid} |->
                         IF x = cid THEN ConversationContext(cid) ELSE convs[x]]
                 ELSE convs
    IN  [convs |-> after, ctx |-> after[cid]]

add_message_to_conversation(convs, cid, role, content) ==
    LET created == get_or_create_conversation(convs, cid).convs
        message == LLMMessage(role, content)
    IN  IF message.ok
        THEN [convs |-> [created EXCEPT ![cid] = add_message(@, message.value)],
              raised |-> "none"]
        ELSE [convs |-> created, raised |-> "ValidationError"]

\* a history that keeps the oldest messages instead of the newest
get_conversation_history_oldest(convs, cid, limit) ==
    IF cid \notin DOMAIN convs
    THEN [convs |-> convs, result |-> <<>>]
    ELSE [convs |-> convs,
          result |-> SubSeq(to_llm_format(convs[cid]), 1,
                            IF limit < Len(convs[cid].messages)
                            THEN limit ELSE Len(convs[cid].messages))]

\* a history that looks the conversation up with get_or_create_conversation
get_conversation_history_creating(convs, cid, limit) ==
    LET got == get_or_create_conversation(convs, cid)
    IN  [convs |-> got.convs,
         result |-> PySliceFrom(to_llm_format(got.ctx), 0 - limit)]

get_conversation_history(convs, cid, limit) ==
    IF cid \notin DOMAIN convs
    THEN [convs |-> convs, result |-> <<>>]
    ELSE [convs |-> convs,
          result |-> PySliceFrom(to_llm_format(convs[cid]), 0 - limit)]

\* a clear that empties the whole mapping
clear_conversation_all(convs, cid) ==
    IF cid \in DOMAIN convs THEN <<>> ELSE convs

clear_conversation(convs, cid) ==
    IF cid \in DOMAIN convs
    THEN [x \in DOMAIN convs \ {cid} |-> convs[x]]
    ELSE convs

(***************************************************************************)
(* webapp/llm/service.py : LLMService.  asyncio runs a coroutine without   *)
(* interruption up to an await that waits for the network, so              *)
(* process_chat_request is two steps: up to the POST that client.chat      *)
(* sends, and from the answer on.                                          *)
(***************************************************************************)
HistoryLimit == 10

NoResult == [kind |-> "none", error |-> "none", response |-> NoResponse]

\* LLMService.health_check: client.health_check(), False when it raises
health_check(reply) ==
    LET r == client_health_check(reply)
    IN  IF r.raised # "none" THEN FALSE ELSE r.value

\* an id synthesized without the clock
ResolveConversationId_fixed(request, start_time) ==
    IF Truthy(request.conversation_id)
    THEN request.conversation_id.s
    ELSE <<"conv_", "0">>

\* request.conversation_id or f"conv_{int(start_time.timestamp())}"
ResolveConversationId(request, start_time) ==
    IF Truthy(request.conversation_id)
    THEN request.conversation_id.s
    ELSE <<"conv_", ToString(start_time)>>

\* an except clause that raises an error of its own in place of the caught one
process_chat_except_wrapping(e) ==
    [kind |-> "raised", error |-> "RuntimeError", response |-> NoResponse]

\* the except clause of process_chat_request: log, then raise
process_chat_except(e) == [kind |-> "raised", error |-> e, response |-> NoResponse]

\* a process_chat_request that appends the system prompt to the conversation
\* before the user message, and sends the history as it then stands
process_chat_request_begin_persisting(convs, request, start_time) ==
    LET conversation_id == ResolveConversationId(request, start_time)
        withSystem == IF Truthy(request.system_prompt)
                      THEN add_message_to_conversation(
                               convs, conversation_id, "system",
                               request.system_prompt.s).convs
                      ELSE convs
        added == add_message_to_conversation(withSystem, conversation_id, "user",
                                             request.message)
        history == get_conversation_history(added.convs, conversation_id,
                                            HistoryLimit)
    IN  IF added.raised # "none"
        THEN [convs |-> added.convs, raised |-> added.raised,
              conversation_id |-> conversation_id, payload |-> NoPayload]
        ELSE [convs |-> history.convs, raised |-> "none",
              conversation_id |-> conversation_id,
              payload |-> build_chat_payload(LLMConfig, history.result,
                              [temperature |-> request.temperature,
                               max_tokens |-> request.max_tokens])]

\* process_chat_request reading the history before it appends the user message
process_chat_request_begin_reading_first(convs, request, start_time) ==
    LET conversation_id == ResolveConversationId(request, start_time)
        history == get_conversation_history(convs, conversation_id, HistoryLimit)
        added == add_message_to_conversation(history.convs, conversation_id, "user",
                                             request.message)
        messages == IF Truthy(request.system_prompt)
                    THEN <<[role |-> "system", content |-> request.system_prompt.s]>>
                         \o history.result
                    ELSE history.result
    IN  IF added.raised # "none"
        THEN [convs |-> added.convs, raised |-> added.raised,
              conversation_id |-> conversation_id, payload |-> NoPayload]
        ELSE [convs |-> added.convs, raised |-> "none",
              conversation_id |-> conversation_id,
              payload |-> build_chat_payload(LLMConfig, messages,
                              [temperature |-> request.temperature,
                               max_tokens |-> request.max_tokens])]

\* process_chat_request up to the POST of client.chat: the store it leaves,
\* what it raised, the conversation id and the payload it sends
process_chat_request_begin(convs, request, start_time) ==
    LET conversation_id == ResolveConversationId(request, start_time)
        added == add_message_to_conversation(convs, conversation_id, "user",
                                             request.message)
        history == get_conversation_history(added.convs, conversation_id,
                                            HistoryLimit)
        messages == IF Truthy(request.system_prompt)
                    THEN <<[role |-> "system", content |-> request.system_prompt.s]>>
                         \o history.result
                    ELSE history.result
    IN  IF added.raised # "none"
        THEN [convs |-> added.convs, raised |-> added.raised,
              conversation_id |-> conversation_id, payload |-> NoPayload]
        ELSE [convs |-> history.convs, raised |-> "none",
              conversation_id |-> conversation_id,
              payload |-> build_chat_payload(LLMConfig, messages,
                              [temperature |-> request.temperature,
                               max_tokens |-> request.max_tokens])]

\* a process_chat_request that drops the conversation when it fails after
\* the user append
process_chat_request_end_dropping(convs, request, conversation_id, start_time, answer) ==
    IF answer.raised # "none"
    THEN [convs |-> clear_conversation(convs, conversation_id),
          result |-> process_chat_except(answer.raised)]
    ELSE
      LET added == add_message_to_conversation(convs, conversation_id, "assistant",
                                               answer.value)
          assistant_message == LLMMessage("assistant", answer.value)
          choice == ChatChoice(assistant_message.value, "stop")
          metadata == LLMMetadata(LLMConfig.model_name,
                                  IF Truthy(request.temperature)
                                  THEN request.temperature
                                  ELSE LLMConfig.temperature,
                                  (now - start_time) * 1000)
          response == ChatResponse(conversation_id, <<choice>>, metadata.value)
      IN  IF added.raised # "none" \/ ~(assistant_message.ok /\ metadata.ok)
          THEN [convs |-> clear_conversation(convs, conversation_id),
                result |-> process_chat_except("ValidationError")]
          ELSE [convs |-> added.convs,
                result |-> [kind |-> "returned", error |-> "none",
                            response |-> response.value]]

\* process_chat_request from the answer of client.chat on: the store it
\* leaves and what it returns or raises
process_chat_request_end(convs, request, conversation_id, start_time, answer) ==
    IF answer.raised # "none"
    THEN [convs |-> convs, result |-> process_chat_except(answer.raised)]
    ELSE
      LET added == add_message_to_conversation(convs, conversation_id, "assistant",
                                               answer.value)
          generation_time_ms == (now - start_time) * 1000
          assistant_message == LLMMessage("assistant", answer.value)
          choice == ChatChoice(assistant_message.value, "stop")
          metadata == LLMMetadata(LLMConfig.model_name,
                                  IF Truthy(request.temperature)
                                  THEN request.temperature
                                  ELSE LLMConfig.temperature,
                                  generation_time_ms)
          response == ChatResponse(conversation_id, <<choice>>, metadata.value)
      IN  IF added.raised # "none"
          THEN [convs |-> added.convs, result |-> process_chat_except(added.raised)]
          ELSE IF ~(assistant_message.ok /\ metadata.ok /\ response.ok)
          THEN [convs |-> added.convs,
                result |-> process_chat_except("ValidationError")]
          ELSE [convs |-> added.convs,
                result |-> [kind |-> "returned", error |-> "none",
                            response |-> response.value]]

\* datetime.utcnow().isoformat()
isoformat(time) == JStr(<<ToString(time)>>)

\* the analysis prompt of analyze_user_input, around the user input
analysis_prompt(user_input) ==
    <<"Analyze the following user input: ">> \o user_input

\* the prompt of generate_with_structured_output
structured_prompt(prompt, output_schema, system_prompt) ==
    (IF ~Truthy(system_prompt) THEN <<"You are a helpful assistant.">>
     ELSE IF system_prompt.t = "str" THEN system_prompt.s
     ELSE <<"str(system_prompt)">>)
    \o <<" Schema: ", output_schema, " Prompt: ">> \o prompt

\* LLMService.analyze_user_input, given what client.generate returned or
\* raised: the dictionary it returns (it raises nothing)
analyze_user_input(answer) ==
    IF answer.raised # "none"
    THEN JObj([error |-> JStr(<<answer.raised>>), timestamp |-> isoformat(now)])
    ELSE JObj([analysis |-> answer.value, timestamp |-> isoformat(now)])

\* a generate_with_structured_output that lets the decoding error out
generate_with_structured_output_strict(answer) ==
    IF answer.raised # "none"
    THEN [raised |-> answer.raised, value |-> JNull]
    ELSE IF answer.value.t # "str"
    THEN [raised |-> "TypeError", value |-> JNull]
    ELSE LET decoded == json_loads(answer.value.s)
         IN  IF decoded.ok
             THEN [raised |-> "none", value |-> decoded.value]
             ELSE [raised |-> "JSONDecodeError", value |-> JNull]

\* LLMService.generate_with_structured_output, given what client.generate
\* returned or raised: the value it returns, or what it raises
generate_with_structured_output(answer) ==
    IF answer.raised # "none"
    THEN [raised |-> answer.raised, value |-> JNull]
    ELSE IF answer.value.t # "str"
    THEN [raised |-> "TypeError", value |-> JNull]
    ELSE LET decoded == json_loads(answer.value.s)
         IN  IF decoded.ok
             THEN [raised |-> "none", value |-> decoded.value]
             ELSE [raised |-> "none",
                   value |-> JObj([raw_response |-> answer.value,
                                   parsed |-> JBool(FALSE),
                                   timestamp |-> isoformat(now)])]

(***************************************************************************)
(* webapp/llm/utils.py and webapp/api/routes.py : POST /chat               *)
(***************************************************************************)
\* jsonify(create_error_response(error_type, message, details)), status
create_error_response(status, error_type, details) ==
    [status |-> status, error |-> TRUE, error_type |-> error_type,
     details |-> details, response |-> NoResponse]

NoHttp == [status |-> 0, error |-> FALSE, error_type |-> "", details |-> {},
           response |-> NoResponse]

\* the two except clauses that close the chat handler
chat_except(e) ==
    IF e = "ValidationError"
    THEN create_error_response(400, "validation_error", {"errors"})
    ELSE create_error_response(500, "internal_error", {})

\* chat(), from the body to the first await on the network: the response it
\* returns at once, or the validated request it goes on with
chat_receive(body) ==
    IF body.t = "malformed"
    THEN [done |-> TRUE, http |-> chat_except("BadRequest"), request |-> NoReq]
    ELSE IF ~Truthy(body)
    THEN [done |-> TRUE, request |-> NoReq,
          http |-> create_error_response(400, "validation_error", {})]
    ELSE IF body.t # "obj"
    THEN [done |-> TRUE, http |-> chat_except("TypeError"), request |-> NoReq]
    ELSE LET chat_request == ChatRequest(body)
         IN  IF ~chat_request.ok
             THEN [done |-> TRUE, request |-> NoReq,
                   http |-> create_error_response(400, "validation_error",
                                                  {"validation_errors"})]
             ELSE [done |-> FALSE, http |-> NoHttp, request |-> chat_request.value]

\* chat(), the response for what process_chat_request returned or raised
chat_respond(result) ==
    IF result.kind = "raised"
    THEN chat_except(result.error)
    ELSE [status |-> 200, error |-> FALSE, error_type |-> "", details |-> {},
          response |-> result.response]

(***************************************************************************)
(* webapp/api/routes.py : POST /analyze and POST /structured-output.  A    *)
(* handler is given the body and the answer of the remote endpoint to the  *)
(* POST of client.generate; called tells whether it got as far as that     *)
(* POST.                                                                   *)
(***************************************************************************)
NoReply == [k |-> "none", body |-> JNull, text |-> <<>>]

\* what a handler answers: called, the prompt sent, status, error_type of an
\* ErrorResponse ("" when the body is none), and the JSON body otherwise
Answer(called, prompt, status, error_type, json) ==
    [called |-> called, prompt |-> prompt, status |-> status,
     error_type |-> error_type, json |-> json]

\* payload.get(key, "").strip(): the text, or AttributeError
GetStripped(payload, key) ==
    IF payload.t # "obj" THEN [raised |-> "AttributeError", value |-> <<>>]
    ELSE LET v == Get(payload, key, JStr(<<>>))
         IN  IF v.t # "str" THEN [raised |-> "AttributeError", value |-> <<>>]
             ELSE [raised |-> "none", value |-> strip(v.s)]

\* analyze_input()
analyze_input(body, reply) ==
    LET user_input == GetStripped(body, "input")
    IN  IF body.t = "malformed" \/ user_input.raised # "none"
        THEN Answer(FALSE, <<>>, 500, "internal_error", JNull)
        ELSE IF user_input.value = <<>>
        THEN Answer(FALSE, <<>>, 400, "validation_error", JNull)
        ELSE Answer(TRUE, analysis_prompt(user_input.value), 200, "",
                    JObj([input |-> JStr(user_input.value),
                          analysis |-> analyze_user_input(generate(reply))]))

\* str(schema), as far as the prompt needs it
SchemaText(schema) == IF schema.t = "obj" /\ DOMAIN schema.f = {} THEN "{}" ELSE "schema"

\* structured_output()
structured_output(body, reply) ==
    LET prompt == GetStripped(body, "prompt")
    IN  IF body.t = "malformed" \/ prompt.raised # "none"
        THEN Answer(FALSE, <<>>, 500, "internal_error", JNull)
        ELSE IF prompt.value = <<>>
        THEN Answer(FALSE, <<>>, 400, "validation_error", JNull)
        ELSE LET sent == structured_prompt(
                             prompt.value,
                             SchemaText(Get(body, "schema", JObj(<<>>))),
                             Get(body, "system_prompt", JNull))
                 result == generate_with_structured_output(generate(reply))
             IN  IF result.raised # "none"
                 THEN Answer(TRUE, sent, 500, "internal_error", JNull)
                 ELSE Answer(TRUE, sent, 200, "", result.value)

(***************************************************************************)
(* webapp/schemas.py and webapp/api/routes.py : POST /chat/legacy          *)
(***************************************************************************)
\* ChatRequest(**payload) of webapp/schemas.py, for a payload that is a JSON
\* object: message is a required str, with no further constraint
LegacyChatRequest(payload) ==
    IF "message" \in DOMAIN payload.f /\ payload.f["message"].t = "str"
    THEN [ok |-> TRUE, message |-> payload.f["message"].s]
    ELSE [ok |-> FALSE, message |-> <<>>]

\* "legacy-" + str(hash(message) % 100000): hash is a function of the text
LegacyId(message) == [prefix |-> "legacy-", hash_of |-> message]

NoEcho == [status |-> 0, error |-> "", id |-> LegacyId(<<>>), model |-> "",
           choices |-> <<>>]

\* a handler that reads the message with a default of the empty string
chat_legacy_defaulting(body) ==
    IF body.t # "obj"
    THEN [NoEcho EXCEPT !.status = 400, !.error = "Invalid request format"]
    ELSE LET message == Get(body, "message", JStr(<<>>))
         IN  IF message.t # "str"
             THEN [NoEcho EXCEPT !.status = 400, !.error = "Invalid request format"]
             ELSE [status |-> 200, error |-> "", id |-> LegacyId(message.s),
                   model |-> "demo-echo-1",
                   choices |-> <<[role |-> "assistant",
                                  content |-> <<"Echo: ">> \o message.s]>>]

\* chat_legacy(): every exception, from get_json on, is answered 400
chat_legacy(body) ==
    IF body.t = "malformed" \/ body.t # "obj"
    THEN [NoEcho EXCEPT !.status = 400, !.error = "Invalid request format"]
    ELSE LET req == LegacyChatRequest(body)
         IN  IF ~req.ok
             THEN [NoEcho EXCEPT !.status = 400, !.error = "Invalid request format"]
             ELSE [status |-> 200, error |-> "", id |-> LegacyId(req.message),
                   model |-> "demo-echo-1",
                   choices |-> <<[role |-> "assistant",
                                  content |-> <<"Echo: ">> \o req.message]>>]

(***************************************************************************)
(* webapp/__init__.py and webapp/api.py : the application's error handlers *)
(* and the echo handler of POST /api/chat.  The handler catches nothing:   *)
(* the BadRequest of get_json goes to the handler for 400, every other     *)
(* exception becomes an internal server error and goes to the handler for  *)
(* 500.                                                                    *)
(***************************************************************************)
\* errorhandler(400)
bad_request == [NoEcho EXCEPT !.status = 400, !.error = "Bad request"]

\* errorhandler(500)
internal_error == [NoEcho EXCEPT !.status = 500, !.error = "Internal server error"]

\* str(uuid.uuid4()), when issued identifiers were handed out before
uuid4(issued) == [uuid |-> issued + 1]

\* an echo handler that trims the message before echoing it
api_chat_trimming(body, issued) ==
    IF body.t = "malformed"
    THEN bad_request
    ELSE IF body.t # "obj"
    THEN internal_error
    ELSE LET req == LegacyChatRequest(body)
         IN  IF ~req.ok
             THEN internal_error
             ELSE [status |-> 200, error |-> "", id |-> uuid4(issued),
                   model |-> "demo-echo-1",
                   choices |-> <<[role |-> "assistant",
                                  content |-> <<"Echo: ">> \o strip(req.message)]>>]

\* chat() of webapp/api.py
api_chat(body, issued) ==
    IF body.t = "malformed"
    THEN bad_request
    ELSE IF body.t # "obj"
    THEN internal_error
    ELSE LET req == LegacyChatRequest(body)
         IN  IF ~req.ok
             THEN internal_error
             ELSE [status |-> 200, error |-> "", id |-> uuid4(issued),
                   model |-> "demo-echo-1",
                   choices |-> <<[role |-> "assistant",
                                  content |-> <<"Echo: ">> \o req.message]>>]

(***************************************************************************)
(* Inputs of the store operations.  Direct appends take the roles user and *)
(* assistant and a string that is no MessageRole.                          *)
(***************************************************************************)
ConvIds == {<<"c1">>, <<"c2">>}
RoleInputs == {"user", "assistant", "tool"}
RawContents == {<<>>, <<SP>>, <<"a">>, <<SP, "b", SP>>}
Limits == (0 - MaxLimit)..MaxLimit

RECURSIVE SumLen(_, _)
SumLen(convs, ids) ==
    IF ids = {} THEN 0
    ELSE LET c == CHOOSE x \in ids : TRUE
         IN  Len(convs[c].messages) + SumLen(convs, ids \ {c})

\* messages the store holds
TotalMsgs == SumLen(conversations, DOMAIN conversations)

\* the request slots of the HTTP server
Tasks == {"t1", "t2"}

\* a slot: where its handler stands (idle, health: waiting for GET /api/tags,
\* chat: waiting for POST /api/chat, done: it has answered), the body it
\* received, the validated request, the locals of process_chat_request, the
\* number of POSTs client.chat has sent, what client.chat raised, what
\* process_chat_request returned or raised, and the HTTP response
Idle == [pc |-> "idle", body |-> JNull, request |-> NoReq, healthy |-> "unknown",
         start_time |-> 0, conversation_id |-> <<>>, payload |-> NoPayload,
         calls |-> 0, gateway |-> "none", result |-> NoResult, http |-> NoHttp]

\* last: the operation, its arguments, whether its id was stored before it
\* ran, and what it returned or raised
NoOp == [op |-> "none", cid |-> <<>>, role |-> "", content |-> <<>>, limit |-> 0,
         known |-> FALSE, result |-> <<>>, ctx |-> <<>>, raised |-> "none"]

\* served: the endpoint, the body, the answer of the remote endpoint to the
\* POST of client.generate (none when it was not sent), the payload of that
\* POST, and the HTTP response
NoServed == [endpoint |-> "", body |-> JNull, reply |-> NoReply,
             payload |-> NoPayload,
             http |-> Answer(FALSE, <<>>, 0, "", JNull)]

\* probe: the call, its arguments, and what it built, returned or raised
NoProbe == [op |-> "none", config |-> LLMConfig, kwargs |-> <<>>, reply |-> NoReply,
            payload |-> NoPayload, raised |-> "none", value |-> FALSE,
            service |-> FALSE, text |-> JNull]

\* built: the entity, the arguments of its constructor, whether it was
\* constructed, and the fields the ValidationError names
NoBuilt == [entity |-> "none", role |-> "", content |-> <<>>, payload |-> JNull,
            choices |-> <<>>, ok |-> FALSE, errors |-> <<>>]

\* the calls of LLMService.cleanup that may be in progress at once
Cleanups == {"k1", "k2"}

\* pool: every LLMClient the service created ("open" or "closed"), the one
\* LLMService._client refers to (0 for None), the client whose close() each
\* cleanup awaits (0 when the cleanup is not running), the call that
\* returned last, and the state of the client the last request was given
NoPool == [clients |-> <<>>, held |-> 0, closing |-> [k \in Cleanups |-> 0],
           returned |-> "none", given |-> "none"]

Init ==
    /\ conversations = <<>>
    /\ now = 0
    /\ last = NoOp
    /\ llm_service = FALSE
    /\ client = "None"
    /\ tasks = [t \in Tasks |-> Idle]
    /\ answered = Idle
    /\ echoLog = <<>>
    /\ uuids = 0
    /\ served = NoServed
    /\ probe = NoProbe
    /\ built = NoBuilt
    /\ pool = NoPool

Tick ==
    /\ now < MaxTime
    /\ now' = now + 1
    /\ UNCHANGED <<conversations, last, llm_service, client, tasks, answered, echoLog,
                   uuids, served, probe, built, pool>>

GetOrCreate(cid) ==
    /\ LET r == get_or_create_conversation(conversations, cid)
       IN  /\ conversations' = r.convs
           /\ last' = [NoOp EXCEPT !.op = "get_or_create", !.cid = cid,
                                   !.known = (cid \in DOMAIN conversations),
                                   !.ctx = r.ctx.messages]
    /\ UNCHANGED <<now, llm_service, client, tasks, answered, echoLog, uuids, served,
                   probe, built, pool>>

AppendMessage(cid, role, content) ==
    /\ TotalMsgs < MaxMsgs
    /\ LET r == add_message_to_conversation(conversations, cid, role, content)
       IN  /\ conversations' = r.convs
           /\ last' = [NoOp EXCEPT !.op = "append", !.cid = cid, !.role = role,
                                   !.content = content,
                                   !.known = (cid \in DOMAIN conversations),
                                   !.raised = r.raised]
    /\ UNCHANGED <<now, llm_service, client, tasks, answered, echoLog, uuids, served,
                   probe, built, pool>>

History(cid, limit) ==
    /\ LET r == get_conversation_history(conversations, cid, limit)
       IN  /\ conversations' = r.convs
           /\ last' = [NoOp EXCEPT !.op = "history", !.cid = cid, !.limit = limit,
                                   !.known = (cid \in DOMAIN conversations),
                                   !.result = r.result]
    /\ UNCHANGED <<now, llm_service, client, tasks, answered, echoLog, uuids, served,
                   probe, built, pool>>

Clear(cid) ==
    /\ conversations' = clear_conversation(conversations, cid)
    /\ last' = [NoOp EXCEPT !.op = "clear", !.cid = cid,
                            !.known = (cid \in DOMAIN conversations)]
    /\ UNCHANGED <<now, llm_service, client, tasks, answered, echoLog, uuids, served,
                   probe, built, pool>>

\* Specification of the ConversationManager operations alone
StoreNext ==
    \/ \E cid \in ConvIds : GetOrCreate(cid)
    \/ \E cid \in ConvIds, role \in RoleInputs, content \in RawContents :
          AppendMessage(cid, role, content)
    \/ \E cid \in ConvIds, limit \in Limits : History(cid, limit)
    \/ \E cid \in ConvIds : Clear(cid)

SpecStore == Init /\ [][StoreNext]_vars

(***************************************************************************)
(* Inputs of POST /chat: bodies, and the answers of the remote endpoint.   *)
(* The object bodies are a well-formed request and every body that differs *)
(* from it in one field.                                                   *)
(***************************************************************************)
BaseFields == [message |-> JStr(<<"a">>), conversation_id |-> JStr(<<"c1">>),
               system_prompt |-> Absent, temperature |-> Absent,
               max_tokens |-> Absent]

FieldInputs ==
    [message |-> {Absent, JNum(5), JStr(<<>>), JStr(<<SP>>), JStr(<<SP, "b">>)},
     conversation_id |-> {Absent, JStr(<<>>), JNum(5)},
     system_prompt |-> {JStr(<<>>), JStr(<<"s">>)},
     temperature |-> {JNull, JNum(0), JNum(30)},
     max_tokens |-> {JNum(5), JNum(0)}]

ObjectBodies ==
    {MkObj(BaseFields)} \cup
    UNION { {MkObj([BaseFields EXCEPT ![k] = v]) : v \in FieldInputs[k]} :
            k \in DOMAIN FieldInputs }

Bodies == {Malformed, JNull, JObj(<<>>), JList(<<JNum(1)>>)} \cup ObjectBodies

ReplyTexts == {<<>>, <<SP>>, <<"r">>, <<"r", SP>>}

ChatReplies ==
    {[k |-> "transport", body |-> JNull], [k |-> "status", body |-> JNull],
     [k |-> "undecodable", body |-> JNull],
     [k |-> "json", body |-> JList(<<>>)],
     [k |-> "json", body |-> JObj(<<>>)],
     [k |-> "json", body |-> JObj([message |-> JNull])],
     [k |-> "json", body |-> JObj([message |-> JObj(<<>>)])]}
    \cup {[k |-> "json", body |-> JObj([message |-> JObj([content |-> JStr(x)])])] :
            x \in ReplyTexts}

TagsReplies ==
    {[k |-> "transport", body |-> JNull], [k |-> "status", body |-> JNull],
     [k |-> "undecodable", body |-> JNull],
     [k |-> "json", body |-> JList(<<>>)],
     [k |-> "json", body |-> JObj([models |-> JList(<<>>)])],
     [k |-> "json",
      body |-> JObj([models |-> JList(<<JObj([name |-> JStr(LLMConfig.model_name)])>>)])]}

\* messages a slot's request may still append
Pending(t) ==
    CASE tasks[t].pc = "health" -> 2
      [] tasks[t].pc = "chat" -> 1
      [] OTHER -> 0

RECURSIVE SumPending(_)
SumPending(ts) ==
    IF ts = {} THEN 0
    ELSE LET t == CHOOSE x \in ts : TRUE
         IN  Pending(t) + SumPending(ts \ {t})

\* chat(): the body arrives, is parsed and validated; a valid request gets
\* the service and awaits service.health_check()
Received(t, body) ==
    /\ tasks[t].pc = "idle"
    /\ LET r == chat_receive(body)
       IN  IF r.done
           THEN /\ answered' = [Idle EXCEPT !.pc = "done", !.body = body,
                                            !.http = r.http]
                /\ UNCHANGED <<tasks, llm_service, client>>
           ELSE /\ tasks' = [tasks EXCEPT ![t] =
                        [Idle EXCEPT !.pc = "health", !.body = body,
                                     !.request = r.request]]
                /\ llm_service' = TRUE
                /\ client' = "open"
                /\ UNCHANGED answered
    /\ UNCHANGED <<conversations, now, last, echoLog, uuids, served, probe, built,
                   pool>>

\* the store has room for the two messages of one more request
Room(cap) == TotalMsgs + SumPending(Tasks) + 2 <= cap

ChatReceive(t, body) ==
    /\ Room(MaxHistory)
    /\ Received(t, body)

\* the health check answers: 503, or process_chat_request runs up to its POST
ChatHealth(t, reply) ==
    /\ tasks[t].pc = "health"
    /\ IF ~health_check(reply)
       THEN /\ answered' = [tasks[t] EXCEPT !.pc = "done", !.healthy = "no",
                              !.http = create_error_response(
                                           503, "service_unavailable", {})]
            /\ tasks' = [tasks EXCEPT ![t] = Idle]
            /\ UNCHANGED conversations
       ELSE LET b == process_chat_request_begin(conversations, tasks[t].request, now)
                began == [tasks[t] EXCEPT !.healthy = "yes", !.start_time = now,
                                          !.conversation_id = b.conversation_id]
            IN  /\ conversations' = b.convs
                /\ IF b.raised # "none"
                   THEN /\ answered' =
                             [began EXCEPT !.pc = "done",
                                 !.result = process_chat_except(b.raised),
                                 !.http = chat_respond(process_chat_except(b.raised))]
                        /\ tasks' = [tasks EXCEPT ![t] = Idle]
                   ELSE /\ tasks' = [tasks EXCEPT ![t] =
                             [began EXCEPT !.pc = "chat", !.payload = b.payload,
                                           !.calls = @ + 1]]
                        /\ UNCHANGED answered
    /\ client' = "open"
    /\ UNCHANGED <<now, last, llm_service, echoLog, uuids, served, probe, built, pool>>

\* client.chat answers: process_chat_request runs to its end and chat() responds
ChatReturn(t, reply) ==
    /\ tasks[t].pc = "chat"
    /\ LET answer == chat(reply)
           e == process_chat_request_end(conversations, tasks[t].request,
                                         tasks[t].conversation_id,
                                         tasks[t].start_time, answer)
       IN  /\ conversations' = e.convs
           /\ answered' = [tasks[t] EXCEPT !.pc = "done", !.gateway = answer.raised,
                               !.result = e.result, !.http = chat_respond(e.result)]
           /\ tasks' = [tasks EXCEPT ![t] = Idle]
    /\ UNCHANGED <<now, last, llm_service, client, echoLog, uuids, served, probe, built,
                   pool>>

Next ==
    \/ \E t \in Tasks, body \in Bodies : ChatReceive(t, body)
    \/ \E t \in Tasks, reply \in TagsReplies : ChatHealth(t, reply)
    \/ \E t \in Tasks, reply \in ChatReplies : ChatReturn(t, reply)

\* Specification of the /chat endpoint over the LLMService
Spec == Init /\ [][Next]_vars

(***************************************************************************)
(* Inputs of the echo endpoints, and their specification.                  *)
(***************************************************************************)
EchoTexts == {<<>>, <<SP>>, <<"a">>, <<SP, "a", SP>>, <<"Hello, world!">>}

EchoBodies ==
    {Malformed, JNull, JNum(1), JList(<<JStr(<<"a">>)>>), JObj(<<>>),
     JObj([message |-> JNum(5)]), JObj([message |-> JNull]),
     JObj([text |-> JStr(<<"a">>)])}
    \cup {JObj([message |-> JStr(m)]) : m \in EchoTexts}

\* what an echo handler could see of the LLM side when it ran: whether the
\* service exists, how many messages the store holds, how the last health
\* check of a /chat request went
Seen == [llm_service |-> llm_service, stored |-> TotalMsgs,
         healthy |-> answered.healthy]

\* a legacy handler that gets the LLM service before it echoes
ChatLegacy_getting_service(body) ==
    /\ Len(echoLog) < MaxEcho
    /\ echoLog' = Append(echoLog, [endpoint |-> "/chat/legacy", body |-> body,
                                   at |-> Seen, response |-> chat_legacy(body)])
    /\ llm_service' = TRUE
    /\ UNCHANGED <<conversations, now, last, client, tasks, answered, uuids, served,
                   probe, built, pool>>

\* POST /chat/legacy
ChatLegacy(body) ==
    /\ Len(echoLog) < MaxEcho
    /\ echoLog' = Append(echoLog, [endpoint |-> "/chat/legacy", body |-> body,
                                   at |-> Seen, response |-> chat_legacy(body)])
    /\ UNCHANGED <<conversations, now, last, llm_service, client, tasks, answered,
                   uuids, served, probe, built, pool>>

\* POST /api/chat of webapp/api.py
ApiChat(body) ==
    /\ Len(echoLog) < MaxEcho
    /\ LET response == api_chat(body, uuids)
       IN  /\ echoLog' = Append(echoLog, [endpoint |-> "/api/chat", body |-> body,
                                          at |-> Seen, response |-> response])
           /\ uuids' = IF response.status = 200 THEN uuids + 1 ELSE uuids
    /\ UNCHANGED <<conversations, now, last, llm_service, client, tasks, answered,
                   served, probe, built, pool>>

EchoNext ==
    \/ \E body \in EchoBodies : ChatLegacy(body)
    \/ \E body \in EchoBodies : ApiChat(body)

\* Specification of the echo endpoints
SpecEcho == Init /\ [][EchoNext]_vars

(***************************************************************************)
(* The echo endpoints next to POST /chat: one /chat request at a time on   *)
(* conversation c1, with the remote endpoint reachable or not at each      *)
(* call, and echo requests arriving at any moment.                         *)
(***************************************************************************)
AppEchoBodies == {JObj(<<>>), JObj([message |-> JStr(<<"a">>)])}

\* the remote endpoint unreachable, or answering as it should
AppTagsReplies ==
    {[k |-> "transport", body |-> JNull],
     [k |-> "json",
      body |-> JObj([models |-> JList(<<JObj([name |-> JStr(LLMConfig.model_name)])>>)])]}

AppChatReplies ==
    {[k |-> "transport", body |-> JNull],
     [k |-> "json", body |-> JObj([message |-> JObj([content |-> JStr(<<"r">>)])])]}

AppNext ==
    \/ ChatReceive("t1", MkObj(BaseFields))
    \/ \E reply \in AppTagsReplies : ChatHealth("t1", reply)
    \/ \E reply \in AppChatReplies : ChatReturn("t1", reply)
    \/ \E body \in AppEchoBodies : ChatLegacy(body)
    \/ \E body \in AppEchoBodies : ApiChat(body)

\* Specification of the echo endpoints served next to /chat
SpecApp == Init /\ [][AppNext]_vars

(***************************************************************************)
(* POST /analyze and POST /structured-output: bodies, and the answers of   *)
(* the remote endpoint to POST /api/generate.  A handler waits for the     *)
(* network once, at that POST; it has got the service and its client       *)
(* before and reads or writes nothing shared after, so it is one step.     *)
(***************************************************************************)
Quote == "\""

\* the text {"response": "<x>"}
ResponseLine(x) ==
    <<"{", Quote>> \o ResponseKey \o <<Quote, ":", SP, Quote>> \o x \o <<Quote, "}">>

GenerateTexts ==
    {<<>>, <<"h", "i">>, <<"5">>, <<SP, "[", "1", ",", "2", "]">>, <<"{", "}">>,
     <<"{", Quote, "a", Quote, ":", "n", "u", "l", "l", "}">>,
     <<"{", Quote, "a", Quote, ":">>, ResponseLine(<<"x">>),
     <<"n", "u", "l", "l">>, <<Quote, "a", Quote>>}

StreamTexts ==
    {<<>>,
     ResponseLine(<<"a">>) \o <<"\n">> \o ResponseLine(<<"b">>) \o <<"\n">>,
     ResponseLine(<<"a">>) \o <<"\n", "{", "\n", "\n">> \o ResponseLine(<<"5">>),
     <<"{", Quote>> \o ResponseKey \o <<Quote, ":", "5", "}">>,
     <<"5">>}

GenerateReplies ==
    {[k |-> "transport", body |-> JNull, text |-> <<>>],
     [k |-> "status", body |-> JNull, text |-> <<>>],
     [k |-> "undecodable", body |-> JNull, text |-> <<>>],
     [k |-> "json", body |-> JList(<<>>), text |-> <<>>],
     [k |-> "json", body |-> JObj(<<>>), text |-> <<>>],
     [k |-> "json", body |-> JObj([response |-> JNum(5)]), text |-> <<>>]}
    \cup {[k |-> "json", body |-> JObj([response |-> JStr(x)]), text |-> <<>>] :
            x \in GenerateTexts}
    \cup {[k |-> "ndjson", body |-> JNull, text |-> x] : x \in StreamTexts}

AnalyzeBodies ==
    {Malformed, JNull, JList(<<>>), JObj(<<>>), JObj([input |-> JNum(5)]),
     JObj([input |-> JStr(<<SP>>)]), JObj([input |-> JStr(<<"q">>)]),
     JObj([input |-> JStr(<<SP, "q", SP>>)])}

StructuredBodies ==
    {Malformed, JNull, JList(<<>>), JObj(<<>>), JObj([prompt |-> JNull]),
     JObj([prompt |-> JStr(<<SP>>)]), JObj([prompt |-> JStr(<<"q">>)]),
     JObj([prompt |-> JStr(<<SP, "q">>), schema |-> JObj([type |-> JStr(<<"o">>)]),
           system_prompt |-> JStr(<<"s">>)])}

\* served, for a handler's answer; the payload of client.generate carries no
\* system prompt and no keyword
ServedBy(endpoint, body, reply, http) ==
    [endpoint |-> endpoint, body |-> body,
     reply |-> IF http.called THEN reply ELSE NoReply,
     payload |-> IF http.called
                 THEN build_payload(LLMConfig, http.prompt, JNull, <<>>)
                 ELSE NoPayload,
     http |-> http]

\* POST /analyze; the service and its client exist once the handler has gone
\* as far as client.generate
Analyze(body, reply) ==
    LET http == analyze_input(body, reply)
    IN  /\ served' = ServedBy("/analyze", body, reply, http)
        /\ llm_service' = (llm_service \/ http.called)
        /\ client' = IF http.called THEN "open" ELSE client
        /\ UNCHANGED <<conversations, now, last, tasks, answered, echoLog, uuids, probe,
                       built, pool>>

\* POST /structured-output
StructuredOutput(body, reply) ==
    LET http == structured_output(body, reply)
    IN  /\ served' = ServedBy("/structured-output", body, reply, http)
        /\ llm_service' = (llm_service \/ http.called)
        /\ client' = IF http.called THEN "open" ELSE client
        /\ UNCHANGED <<conversations, now, last, tasks, answered, echoLog, uuids, probe,
                       built, pool>>

GenerateNext ==
    \/ \E body \in AnalyzeBodies, reply \in GenerateReplies : Analyze(body, reply)
    \/ \E body \in StructuredBodies, reply \in GenerateReplies :
          StructuredOutput(body, reply)

\* Specification of the endpoints that call client.generate
SpecGenerate == Init /\ [][GenerateNext]_vars

(***************************************************************************)
(* /chat on conversations longer than the window of process_chat_request:  *)
(* requests that are valid, a gateway that is healthy and answers.         *)
(***************************************************************************)
WindowBodies ==
    {MkObj(BaseFields),
     MkObj([BaseFields EXCEPT !["system_prompt"] = JStr(<<"s">>)]),
     MkObj([BaseFields EXCEPT !["system_prompt"] = JStr(<<>>)])}

WindowTags ==
    [k |-> "json",
     body |-> JObj([models |-> JList(<<JObj([name |-> JStr(LLMConfig.model_name)])>>)])]

WindowReply ==
    [k |-> "json", body |-> JObj([message |-> JObj([content |-> JStr(<<"r">>)])])]

ChatReceiveLong(t, body) ==
    /\ Room(MaxWindow)
    /\ Received(t, body)

WindowNext ==
    \/ \E t \in Tasks, body \in WindowBodies : ChatReceiveLong(t, body)
    \/ \E t \in Tasks : ChatHealth(t, WindowTags)
    \/ \E t \in Tasks : ChatReturn(t, WindowReply)

\* Specification of /chat on long conversations
SpecWindow == Init /\ [][WindowNext]_vars

(***************************************************************************)
(* /chat while the clock advances: requests with and without a             *)
(* conversation_id, a gateway that is healthy and answers or fails.        *)
(***************************************************************************)
ClockBodies ==
    {MkObj(BaseFields),
     MkObj([BaseFields EXCEPT !["conversation_id"] = Absent]),
     MkObj([BaseFields EXCEPT !["conversation_id"] = JNull]),
     MkObj([BaseFields EXCEPT !["conversation_id"] = JStr(<<>>)]),
     MkObj([BaseFields EXCEPT !["conversation_id"] = Absent,
                              !["message"] = JStr(<<"b">>)])}

ClockNext ==
    \/ Tick
    \/ \E t \in Tasks, body \in ClockBodies : ChatReceive(t, body)
    \/ \E t \in Tasks : ChatHealth(t, WindowTags)
    \/ \E t \in Tasks, reply \in AppChatReplies : ChatReturn(t, reply)

\* Specification of /chat under a clock that advances
SpecClock == Init /\ [][ClockNext]_vars

(***************************************************************************)
(* The entities of schemas.py by themselves: each constructor under values *)
(* inside, at the ends of, and outside the constraints of its fields.      *)
(***************************************************************************)
EntityRoles == {"user", "assistant", "system", "tool", ""}

EntityContents == {<<>>, <<SP>>, <<"\n", "\t">>, <<"a">>, <<SP, "a", SP>>}

EntityTemperatures ==
    {Absent, JNull, JNum(TemperatureMin - 1), JNum(TemperatureMin),
     JNum(TemperatureMax), JNum(TemperatureMax + 1)}

EntityMaxTokens ==
    {Absent, JNull, JNum(MaxTokensMin - 1), JNum(MaxTokensMin),
     JNum(MaxTokensMax), JNum(MaxTokensMax + 1)}

EntityPayloads ==
    {MkObj([message |-> m, temperature |-> t, max_tokens |-> k]) :
        m \in {Absent} \cup {JStr(c) : c \in EntityContents},
        t \in EntityTemperatures, k \in EntityMaxTokens}

EntityChoice ==
    ChatChoice([role |-> "assistant", content |-> <<"r">>, timestamp |-> 0], "stop")

EntityChoices == {<<>>, <<EntityChoice>>, <<EntityChoice, EntityChoice>>}

\* LLMMessage(role=role, content=content)
NewLLMMessage(role, content) ==
    /\ built' = [NoBuilt EXCEPT !.entity = "LLMMessage", !.role = role,
                                !.content = content,
                                !.ok = LLMMessage(role, content).ok,
                                !.errors = LLMMessage(role, content).errors]
    /\ UNCHANGED <<conversations, now, last, llm_service, client, tasks, answered,
                   echoLog, uuids, served, probe, pool>>

\* ChatRequest(**payload)
NewChatRequest(payload) ==
    /\ built' = [NoBuilt EXCEPT !.entity = "ChatRequest", !.payload = payload,
                                !.content = IF ChatRequest(payload).ok
                                            THEN ChatRequest(payload).value.message
                                            ELSE <<>>,
                                !.ok = ChatRequest(payload).ok,
                                !.errors = ChatRequest(payload).errors]
    /\ UNCHANGED <<conversations, now, last, llm_service, client, tasks, answered,
                   echoLog, uuids, served, probe, pool>>

\* ChatResponse(conversation_id=..., choices=choices, metadata=...)
NewChatResponse(choices) ==
    LET metadata == LLMMetadata(LLMConfig.model_name, JNum(TemperatureDefault), 0)
        response == ChatResponse(<<"c1">>, choices, metadata.value)
    IN  /\ built' = [NoBuilt EXCEPT !.entity = "ChatResponse", !.choices = choices,
                                    !.ok = response.ok, !.errors = response.errors]
        /\ UNCHANGED <<conversations, now, last, llm_service, client, tasks, answered,
                       echoLog, uuids, served, probe, pool>>

SchemasNext ==
    \/ \E role \in EntityRoles, content \in EntityContents :
          NewLLMMessage(role, content)
    \/ \E payload \in EntityPayloads : NewChatRequest(payload)
    \/ \E choices \in EntityChoices : NewChatResponse(choices)

\* Specification of the entity constructors
SpecSchemas == Init /\ [][SchemasNext]_vars

(***************************************************************************)
(* The gateway client of one LLMService: requests obtain it through        *)
(* _get_client, and cleanup closes it, suspended at the await of close().  *)
(***************************************************************************)
\* a request calls LLMService._get_client()
GetClient ==
    /\ IF pool.held = 0
       THEN /\ Len(pool.clients) < MaxClients
            /\ pool' = [pool EXCEPT !.clients = Append(@, "open"),
                                    !.held = Len(pool.clients) + 1,
                                    !.returned = "request", !.given = "open"]
       ELSE pool' = [pool EXCEPT !.returned = "request",
                                 !.given = pool.clients[pool.held]]
    /\ UNCHANGED <<conversations, now, last, llm_service, client, tasks, answered,
                   echoLog, uuids, served, probe, built>>

\* LLMService.cleanup() up to its await: close() is called on the client held
CleanupBegin(k) ==
    /\ pool.closing[k] = 0
    /\ IF pool.held # 0
       THEN pool' = [pool EXCEPT !.clients[pool.held] = "closed",
                                 !.closing[k] = pool.held]
       ELSE pool' = [pool EXCEPT !.returned = "cleanup"]
    /\ UNCHANGED <<conversations, now, last, llm_service, client, tasks, answered,
                   echoLog, uuids, served, probe, built>>

\* close() returns: self._client = None, and cleanup returns
CleanupEnd(k) ==
    /\ pool.closing[k] # 0
    /\ pool' = [pool EXCEPT !.held = 0, !.closing[k] = 0, !.returned = "cleanup"]
    /\ UNCHANGED <<conversations, now, last, llm_service, client, tasks, answered,
                   echoLog, uuids, served, probe, built>>

LifecycleNext ==
    \/ GetClient
    \/ \E k \in Cleanups : CleanupBegin(k)
    \/ \E k \in Cleanups : CleanupEnd(k)

\* Specification of the client of one LLMService
SpecLifecycle == Init /\ [][LifecycleNext]_vars

(***************************************************************************)
(* The gateway client by itself: the payloads it builds under every        *)
(* configuration and keyword set, and its health check under every answer  *)
(* of the remote endpoint.                                                 *)
(***************************************************************************)
LLMConfigs ==
    {[LLMConfig EXCEPT !.max_tokens = m, !.temperature = t] :
        m \in {JNull, JNum(0), JNum(1), JNum(5)}, t \in {JNum(0), JNum(7)}}

NoKwargs == [k \in {} |-> JNull]

KwargsInputs ==
    {NoKwargs, [temperature |-> JNum(3)], [temperature |-> JNull],
     [temperature |-> JNum(0), max_tokens |-> JNum(9)]}

MessageLists == {<<>>, <<[role |-> "user", content |-> <<"a">>]>>}

HealthReplies ==
    TagsReplies \cup
    {[k |-> "json", body |-> JNull],
     [k |-> "json", body |-> JObj(<<>>)],
     [k |-> "json", body |-> JObj([models |-> JNull])],
     [k |-> "json", body |-> JObj([models |-> JObj(<<>>)])],
     [k |-> "json", body |-> JObj([models |-> JList(<<JStr(<<"m">>)>>)])],
     [k |-> "json", body |-> JObj([models |-> JList(<<JObj(<<>>)>>)])],
     [k |-> "json",
      body |-> JObj([models |-> JList(<<JObj([name |-> JStr(<<"other">>)]),
                                        JObj([name |-> JStr(LLMConfig.model_name)])>>)])]}

\* LLMClient(config)._build_payload(prompt, system_prompt, **kwargs)
BuildPayload(config, system_prompt, kwargs) ==
    /\ probe' = [NoProbe EXCEPT !.op = "build_payload", !.config = config,
                                !.kwargs = kwargs,
                                !.payload = build_payload(config, <<"p">>,
                                                          system_prompt, kwargs)]
    /\ UNCHANGED <<conversations, now, last, llm_service, client, tasks, answered,
                   echoLog, uuids, served, built, pool>>

\* LLMClient(config)._build_chat_payload(messages, **kwargs)
BuildChatPayload(config, messages, kwargs) ==
    /\ probe' = [NoProbe EXCEPT !.op = "build_chat_payload", !.config = config,
                                !.kwargs = kwargs,
                                !.payload = build_chat_payload(config, messages,
                                                               kwargs)]
    /\ UNCHANGED <<conversations, now, last, llm_service, client, tasks, answered,
                   echoLog, uuids, served, built, pool>>

\* LLMClient.health_check() and, over it, LLMService.health_check()
HealthCheck(reply) ==
    /\ probe' = [NoProbe EXCEPT !.op = "health_check", !.reply = reply,
                                !.raised = client_health_check(reply).raised,
                                !.value = client_health_check(reply).value,
                                !.service = health_check(reply)]
    /\ UNCHANGED <<conversations, now, last, llm_service, client, tasks, answered,
                   echoLog, uuids, served, built, pool>>

\* the answers to POST /api/generate, with streams that hold a line that is
\* no JSON, only such lines, or a line without the response field
StreamReplies ==
    GenerateReplies \cup
    {[k |-> "ndjson", body |-> JNull, text |-> x] :
        x \in {<<"h", "i">>,
               <<"{">> \o <<"\n">> \o ResponseLine(<<"b">>),
               ResponseLine(<<"a">>) \o <<"\n", "{", "}", "\n">>
                 \o ResponseLine(<<"b">>)}}

\* LLMClient.generate(prompt) after its POST
Generate(reply) ==
    /\ probe' = [NoProbe EXCEPT !.op = "generate", !.reply = reply,
                                !.raised = generate(reply).raised,
                                !.text = generate(reply).value]
    /\ UNCHANGED <<conversations, now, last, llm_service, client, tasks, answered,
                   echoLog, uuids, served, built, pool>>

ClientNext ==
    \/ \E reply \in StreamReplies : Generate(reply)
    \/ \E config \in LLMConfigs, system_prompt \in {JNull, JStr(<<"s">>)},
          kwargs \in KwargsInputs : BuildPayload(config, system_prompt, kwargs)
    \/ \E config \in LLMConfigs, messages \in MessageLists, kwargs \in KwargsInputs :
          BuildChatPayload(config, messages, kwargs)
    \/ \E reply \in HealthReplies : HealthCheck(reply)

\* Specification of the gateway client
SpecClient == Init /\ [][ClientNext]_vars

(***************************************************************************)
(* Conversation Store properties, under SpecStore.                         *)
(***************************************************************************)
Min(a, b) == IF a < b THEN a ELSE b

\* the role/content pair of a stored message
Pair(m) == [role |-> m.role, content |-> m.content]

\* the stored messages of the conversation the last operation named
LastMsgs ==
    IF last.cid \in DOMAIN conversations
    THEN conversations[last.cid].messages
    ELSE <<>>

\* C4: for a known conversation with T messages and a limit N > 0, history
\* returns the last min(N, T) messages, oldest first, as role/content pairs;
\* and right after a successful append, history(c, 1) is exactly the message
\* just appended (its role, its content trimmed).
C4_HistoryLastN ==
    /\ (last.op = "history" /\ last.limit > 0 /\ last.cid \in DOMAIN conversations) =>
          LET T == Len(LastMsgs)
              k == Min(last.limit, T)
          IN  /\ Len(last.result) = k
              /\ \A i \in 1..k : last.result[i] = Pair(LastMsgs[T - k + i])
    /\ (last.op = "append" /\ last.raised = "none") =>
          get_conversation_history(conversations, last.cid, 1).result
              = << [role |-> last.role, content |-> strip(last.content)] >>

\* a history of 2 taken from a conversation of 3 distinct messages
C4_Witness ==
    /\ last.op = "history"
    /\ last.limit = 2
    /\ Len(LastMsgs) = 3
    /\ LastMsgs[1].role # LastMsgs[3].role
    /\ LastMsgs[2].content # LastMsgs[3].content
    /\ Len(last.result) = 2

\* C5: for a known conversation and every limit <= 0, history returns the
\* full message history.
C5_NonPositiveLimitFull ==
    (last.op = "history" /\ last.limit <= 0 /\ last.cid \in DOMAIN conversations) =>
        /\ Len(last.result) = Len(LastMsgs)
        /\ \A i \in 1..Len(LastMsgs) : last.result[i] = Pair(LastMsgs[i])

\* C6: history on an id the store does not hold returns the empty sequence
\* and leaves the set of stored ids (and every conversation) as it was.
C6_HistoryUnknownNoCreate ==
    [][ (last'.op = "history" /\ last'.cid \notin DOMAIN conversations) =>
            /\ last'.result = <<>>
            /\ DOMAIN conversations' = DOMAIN conversations
            /\ conversations' = conversations ]_vars

\* history of an unseen id while another conversation holds messages
C6_Witness ==
    /\ last.op = "history"
    /\ ~last.known
    /\ last.cid \notin DOMAIN conversations
    /\ \E c \in DOMAIN conversations : conversations[c].messages # <<>>

\* C7: clear removes the named conversation and nothing else, raises nothing,
\* and changes nothing when the id is unknown; get_or_create of an id the
\* store does not hold (as after its clear) yields an empty context.
C7_ClearRemovesOnlyThat ==
    [][ /\ (last'.op = "clear") =>
              /\ last'.raised = "none"
              /\ DOMAIN conversations' = DOMAIN conversations \ {last'.cid}
              /\ \A x \in DOMAIN conversations' : conversations'[x] = conversations[x]
        /\ (last'.op = "get_or_create" /\ last'.cid \notin DOMAIN conversations) =>
              /\ last'.ctx = <<>>
              /\ last'.cid \in DOMAIN conversations'
              /\ conversations'[last'.cid].messages = <<>> ]_vars

\* a conversation with messages was cleared while another one holds messages
C7_Witness ==
    /\ last.op = "clear"
    /\ last.known
    /\ last.cid \notin DOMAIN conversations
    /\ \E c \in DOMAIN conversations : conversations[c].messages # <<>>

\* C8: an append whose content is empty after trimming raises a validation
\* error and leaves the store as it was: no message added, no entry created.
C8_RejectedAppendLeavesStore ==
    [][ (last'.op = "append" /\ strip(last'.content) = <<>>) =>
            /\ last'.raised = "ValidationError"
            /\ conversations' = conversations ]_vars

(***************************************************************************)
(* Chat Orchestrator and POST /chat properties, under Spec.                *)
(***************************************************************************)
\* the entries of a message list whose role is system
SystemEntries(messages) ==
    {i \in 1..Len(messages) : messages[i].role = "system"}

\* C1: whenever client.chat returned a reply text without error for a valid
\* request (the empty text of an absent content field included),
\* process_chat_request returns a ChatResponse with exactly one choice, whose
\* message role is assistant.
C1_ReplyGivesOneAssistantChoice ==
    (answered.pc = "done" /\ answered.calls = 1 /\ answered.gateway = "none") =>
        /\ answered.result.kind = "returned"
        /\ Len(answered.result.response.choices) = 1
        /\ answered.result.response.choices[1].message.role = "assistant"

\* C2: when client.chat fails, the gateway was called exactly once for that
\* request, no ChatResponse is returned, and the error process_chat_request
\* raises is the one client.chat raised.
C2_GatewayFailurePropagates ==
    (answered.pc = "done" /\ answered.gateway # "none") =>
        /\ answered.calls = 1
        /\ answered.result.kind = "raised"
        /\ answered.result.response = NoResponse
        /\ answered.result.error = answered.gateway

\* a request whose chat call got a 2xx body that is no JSON
C2_Witness ==
    /\ answered.pc = "done"
    /\ answered.gateway = "ValueError"
    /\ answered.calls = 1
    /\ answered.result.kind = "raised"

\* C3 as stated: a system_prompt the request carries is the first entry of the
\* message list sent and the only system entry, a request without one sends
\* no system entry, and no stored conversation holds a system-role message.
C3_SystemPromptFirstNeverStored ==
    /\ \A t \in Tasks : tasks[t].pc = "chat" =>
          LET sent == tasks[t].payload.messages
              prompt == tasks[t].request.system_prompt
          IN  IF prompt.t = "str"
              THEN /\ sent # <<>>
                   /\ sent[1] = [role |-> "system", content |-> prompt.s]
                   /\ SystemEntries(sent) = {1}
              ELSE SystemEntries(sent) = {}
    /\ \A c \in DOMAIN conversations :
          SystemEntries(conversations[c].messages) = {}

\* C3 amended: a non-empty system_prompt is the first entry of the message
\* list sent and the only system entry; a request whose system_prompt is
\* absent or the empty string sends no system entry; no stored conversation
\* holds a system-role message.
C3_NonEmptySystemPromptFirstNeverStored ==
    /\ \A t \in Tasks : tasks[t].pc = "chat" =>
          LET sent == tasks[t].payload.messages
              prompt == tasks[t].request.system_prompt
          IN  IF prompt.t = "str" /\ prompt.s # <<>>
              THEN /\ sent # <<>>
                   /\ sent[1] = [role |-> "system", content |-> prompt.s]
                   /\ SystemEntries(sent) = {1}
              ELSE SystemEntries(sent) = {}
    /\ \A c \in DOMAIN conversations :
          SystemEntries(conversations[c].messages) = {}

\* a request with a system prompt was answered 200 on a conversation, and a
\* later request on the same conversation, without one, has sent its list
C3_Witness ==
    /\ answered.pc = "done"
    /\ answered.result.kind = "returned"
    /\ answered.request.system_prompt = JStr(<<"s">>)
    /\ SystemEntries(answered.payload.messages) = {1}
    /\ \E t \in Tasks :
          /\ tasks[t].pc = "chat"
          /\ tasks[t].request.system_prompt = JNull
          /\ tasks[t].conversation_id = answered.conversation_id
          /\ Len(tasks[t].payload.messages) = 3

\* the body is a JSON object that ChatRequest accepts
ValidBody(body) == body.t = "obj" /\ ChatRequestErrors(body.f) = <<>>

\* C9: POST /chat answers 400 validation_error with a validation_errors
\* detail list when the body fails ChatRequest validation, 503
\* service_unavailable when the health check is false, 500 internal_error
\* for any other failure during processing, and 200 with the ChatResponse
\* otherwise.  (A body that is no JSON object is left to answer 400 or 500.)
C9_ChatFourOutcomes ==
    answered.pc = "done" =>
        LET http == answered.http
        IN  CASE answered.body.t # "obj" ->
                    http.status \in {400, 500}
              [] ~ValidBody(answered.body) ->
                    /\ http.status = 400
                    /\ http.error_type = "validation_error"
                    /\ "validation_errors" \in http.details
              [] answered.healthy = "no" ->
                    /\ http.status = 503
                    /\ http.error_type = "service_unavailable"
              [] answered.result.kind = "raised" ->
                    /\ http.status = 500
                    /\ http.error_type = "internal_error"
              [] OTHER ->
                    /\ http.status = 200
                    /\ answered.result.kind = "returned"
                    /\ http.response = answered.result.response

(***************************************************************************)
(* Echo endpoint properties, under SpecEcho (C14 under SpecApp).           *)
(***************************************************************************)
\* C10 as stated: POST /chat/legacy answers 200 for every well-formed JSON
\* body, whatever JSON value it holds, and 400 only for malformed JSON.
C10_LegacyOkForAnyJson ==
    \A i \in 1..Len(echoLog) :
        echoLog[i].endpoint = "/chat/legacy" =>
            IF echoLog[i].body.t = "malformed"
            THEN echoLog[i].response.status = 400
            ELSE echoLog[i].response.status = 200

\* the body is a JSON object whose message field is a string
HasStringMessage(body) ==
    /\ body.t = "obj"
    /\ "message" \in DOMAIN body.f
    /\ body.f["message"].t = "str"

\* C10 amended: POST /chat/legacy answers 200 when the body is a JSON object
\* whose message field is a string, and 400 with the generic error body for
\* every other body: malformed JSON, a JSON value that is no object, an
\* object whose message is missing or no string.
C10_LegacyOkForStringMessage ==
    \A i \in 1..Len(echoLog) :
        echoLog[i].endpoint = "/chat/legacy" =>
            IF HasStringMessage(echoLog[i].body)
            THEN /\ echoLog[i].response.status = 200
                 /\ echoLog[i].response.error = ""
            ELSE /\ echoLog[i].response.status = 400
                 /\ echoLog[i].response.error = "Invalid request format"
                 /\ echoLog[i].response.choices = <<>>

\* an empty message answered 200 and a well-formed body without message
\* answered 400
C10_Witness ==
    /\ \E i \in 1..Len(echoLog) :
          /\ echoLog[i].endpoint = "/chat/legacy"
          /\ echoLog[i].body = JObj([message |-> JStr(<<>>)])
          /\ echoLog[i].response.status = 200
    /\ \E i \in 1..Len(echoLog) :
          /\ echoLog[i].endpoint = "/chat/legacy"
          /\ echoLog[i].body = JObj(<<>>)
          /\ echoLog[i].response.status = 400

\* the body is a JSON object without a message field
LacksMessage(body) == body.t = "obj" /\ "message" \notin DOMAIN body.f

\* C11: an echo request whose JSON body lacks the message field is answered
\* 400 with a body that has an error key, by the /api/chat echo handler and
\* by the /chat/legacy handler.
C11_MissingMessageIs400 ==
    \A i \in 1..Len(echoLog) :
        LacksMessage(echoLog[i].body) =>
            /\ echoLog[i].response.status = 400
            /\ echoLog[i].response.error # ""

\* C12: for every message string m, the empty one and those with surrounding
\* whitespace included, both echo handlers answer 200 with exactly one
\* choice, of role assistant, whose content is "Echo: " followed by m
\* untrimmed, and with model tag "demo-echo-1".
C12_EchoesMessageUntrimmed ==
    \A i \in 1..Len(echoLog) :
        HasStringMessage(echoLog[i].body) =>
            LET m == echoLog[i].body.f["message"].s
                response == echoLog[i].response
            IN  /\ response.status = 200
                /\ Len(response.choices) = 1
                /\ response.choices[1].role = "assistant"
                /\ response.choices[1].content = <<"Echo: ">> \o m
                /\ response.model = "demo-echo-1"

\* /api/chat echoed a message with surrounding whitespace and /chat/legacy
\* echoed the empty message
C12_Witness ==
    /\ \E i \in 1..Len(echoLog) :
          /\ echoLog[i].endpoint = "/api/chat"
          /\ echoLog[i].body = JObj([message |-> JStr(<<SP, "a", SP>>)])
          /\ echoLog[i].response.choices[1].content = <<"Echo: ", SP, "a", SP>>
    /\ \E i \in 1..Len(echoLog) :
          /\ echoLog[i].endpoint = "/chat/legacy"
          /\ echoLog[i].body = JObj([message |-> JStr(<<>>)])
          /\ echoLog[i].response.choices[1].content = <<"Echo: ">>

\* C13: every echo response carries an id that is a uuid, and any two echo
\* responses, two responses to the same message text included, carry
\* different ids, on both echo handlers.
C13_EchoIdsUnique ==
    /\ \A i \in 1..Len(echoLog) :
          echoLog[i].response.status = 200 =>
              "uuid" \in DOMAIN echoLog[i].response.id
    /\ \A i, j \in 1..Len(echoLog) :
          (i # j /\ echoLog[i].response.status = 200
                 /\ echoLog[j].response.status = 200) =>
              echoLog[i].response.id # echoLog[j].response.id

\* C14: handling an echo request calls neither the health check nor the
\* generation of the gateway, creates no LLM service and no client, and
\* leaves every conversation unchanged; its response (status, error, model,
\* choices) is the one the same endpoint gave the same body at any earlier
\* moment, whatever the gateway answered in between.
C14_EchoIndependentOfGateway ==
    [][ echoLog' # echoLog =>
          /\ conversations' = conversations
          /\ llm_service' = llm_service
          /\ client' = client
          /\ tasks' = tasks
          /\ answered' = answered
          /\ LET e == echoLog'[Len(echoLog')]
             IN  \A i \in 1..Len(echoLog) :
                    (echoLog[i].endpoint = e.endpoint /\ echoLog[i].body = e.body) =>
                        /\ echoLog[i].response.status = e.response.status
                        /\ echoLog[i].response.error = e.response.error
                        /\ echoLog[i].response.model = e.response.model
                        /\ echoLog[i].response.choices = e.response.choices ]_vars

\* the same message was echoed before any LLM service existed and again
\* after a /chat request had stored messages and a later one had found the
\* gateway unhealthy
C14_Witness ==
    /\ Len(echoLog) = 2
    /\ echoLog[1].endpoint = echoLog[2].endpoint
    /\ echoLog[1].body = JObj([message |-> JStr(<<"a">>)])
    /\ echoLog[2].body = echoLog[1].body
    /\ ~echoLog[1].at.llm_service
    /\ echoLog[2].at.llm_service
    /\ echoLog[2].at.stored > 0
    /\ echoLog[2].at.healthy = "no"
    /\ echoLog[2].response.status = 200
    /\ conversations # <<>>

\* C16: every failure response produced at the HTTP boundary has the uniform
\* ErrorResponse shape, with an error_type field a client can branch on;
\* here for the failures of the echo endpoints and of the application's
\* handlers for 400 and 500.
C16_FailuresCarryErrorType ==
    \A i \in 1..Len(echoLog) :
        echoLog[i].response.status >= 400 =>
            /\ "error_type" \in DOMAIN echoLog[i].response
            /\ echoLog[i].response.error_type # ""

(***************************************************************************)
(* POST /analyze and POST /structured-output properties, under             *)
(* SpecGenerate.                                                           *)
(***************************************************************************)
\* the remote endpoint did not answer, answered a non-2xx status, or answered
\* a body that cannot be decoded
TransportOrFormatError(reply) == reply.k \in {"transport", "status", "undecodable"}

\* C15: on an endpoint that calls the gateway, a transport or format error
\* raised by the gateway call is answered with status 500 or 503, never with
\* a success status.
C15_GatewayErrorIs5xx ==
    (served.http.called /\ TransportOrFormatError(served.reply)) =>
        served.http.status \in {500, 503}

\* what client.generate returned for the request answered last
GeneratedText == generate(served.reply)

\* C17: for /structured-output with a non-empty prompt, when generate returns
\* a text that is no valid JSON the response is a success whose body has
\* parsed = false and raw_response equal to that text, and when the text is
\* valid JSON the response is the decoded value; so "hi" comes back wrapped
\* and {"a":null} comes back as the object with a = null.
C17_UndecodableTextIsWrapped ==
    (/\ served.endpoint = "/structured-output"
     /\ served.http.called
     /\ GeneratedText.raised = "none"
     /\ GeneratedText.value.t = "str") =>
        LET text == GeneratedText.value.s
            json == served.http.json
        IN  /\ served.http.status = 200
            /\ IF json_loads(text).ok
               THEN json = json_loads(text).value
               ELSE /\ json.t = "obj"
                    /\ {"parsed", "raw_response"} \subseteq DOMAIN json.f
                    /\ json.f["parsed"] = JBool(FALSE)
                    /\ json.f["raw_response"] = JStr(text)
            /\ text = <<"h", "i">> => json.f["raw_response"] = JStr(<<"h", "i">>)
            /\ text = <<"{", Quote, "a", Quote, ":", "n", "u", "l", "l", "}">> =>
                  json = JObj([a |-> JNull])

\* a request whose generated text is a truncated JSON object was answered 200
\* with the text wrapped
C17_Witness ==
    /\ served.endpoint = "/structured-output"
    /\ served.http.called
    /\ served.reply.k = "json"
    /\ served.reply.body = JObj([response |-> JStr(<<"{", Quote, "a", Quote, ":">>)])
    /\ served.http.status = 200
    /\ served.http.json.f["parsed"] = JBool(FALSE)
    /\ served.http.json.f["raw_response"] = JStr(<<"{", Quote, "a", Quote, ":">>)

(***************************************************************************)
(* Gateway client properties, under SpecClient (C18, C19) and Spec (C20).  *)
(***************************************************************************)
\* the listing call succeeded and the listing names the configured model
ListsModel(reply) ==
    /\ reply.k = "json"
    /\ reply.body.t = "obj"
    /\ "models" \in DOMAIN reply.body.f
    /\ reply.body.f["models"].t = "list"
    /\ \E i \in 1..Len(reply.body.f["models"].xs) :
          reply.body.f["models"].xs[i] = JObj([name |-> JStr(LLMConfig.model_name)])

\* C18: health_check never raises; it returns true exactly when the listing
\* call succeeds and the listing holds the configured model name, and false
\* in every other case (unreachable endpoint, non-2xx status, undecodable
\* body, decodable body of unexpected shape); for the client's health_check
\* and for the service's.
C18_HealthCheckNeverRaises ==
    probe.op = "health_check" =>
        /\ probe.raised = "none"
        /\ probe.value = ListsModel(probe.reply)
        /\ probe.service = ListsModel(probe.reply)

\* C19: every payload built for the generate and chat calls has a
\* temperature option, and has num_predict exactly when a maximum-token
\* bound is configured (zero included), with the configured value.
C19_NumPredictWhenConfigured ==
    probe.op \in {"build_payload", "build_chat_payload"} =>
        LET options == probe.payload.options
        IN  /\ "temperature" \in DOMAIN options
            /\ ("num_predict" \in DOMAIN options) = (probe.config.max_tokens # JNull)
            /\ "num_predict" \in DOMAIN options =>
                  options.num_predict = probe.config.max_tokens

\* C20: the chat payload process_chat_request sends carries the request's
\* temperature and max_tokens when the request gives them, and the
\* configured default temperature and the configured max-token bound when
\* the request omits them (temperature null, max_tokens absent).
C20_PayloadCarriesRequestOptions ==
    \A t \in Tasks : tasks[t].pc = "chat" =>
        LET request == tasks[t].request
            options == tasks[t].payload.options
            bound == IF request.max_tokens # JNull
                     THEN request.max_tokens ELSE LLMConfig.max_tokens
        IN  /\ options.temperature = IF request.temperature # JNull
                                     THEN request.temperature
                                     ELSE LLMConfig.temperature
            /\ ("num_predict" \in DOMAIN options) = (bound # JNull)
            /\ "num_predict" \in DOMAIN options => options.num_predict = bound

(***************************************************************************)
(* Claims about the entity constructors.                                   *)
(***************************************************************************)
Names(errors) == {errors[i] : i \in 1..Len(errors)}

Blank(v) == \A i \in 1..Len(v) : v[i] \in Whitespace

OutOfRange(payload, key, lo, hi) ==
    /\ key \in DOMAIN payload.f
    /\ payload.f[key].t # "null"
    /\ payload.f[key].n < lo \/ payload.f[key].n > hi

BlankMessage(payload) ==
    "message" \in DOMAIN payload.f => Blank(payload.f["message"].s)

\* C21: a constructor fails exactly when a field violates its constraint, and
\* the error then names exactly the violating fields: an empty or
\* whitespace-only content or message, a role outside user/assistant/system,
\* a temperature outside [0.0, 2.0], a max_tokens outside [1, 4096], an empty
\* list of choices; every other value is accepted
C21_ViolationsNameTheField ==
    /\ built.entity # "none" => built.ok = (built.errors = <<>>)
    /\ built.entity = "LLMMessage" =>
          /\ ("role" \in Names(built.errors)) = (built.role \notin MessageRole)
          /\ ("content" \in Names(built.errors)) = Blank(built.content)
          /\ Names(built.errors) \subseteq {"role", "content"}
    /\ built.entity = "ChatRequest" =>
          /\ ("message" \in Names(built.errors)) = BlankMessage(built.payload)
          /\ ("temperature" \in Names(built.errors))
                = OutOfRange(built.payload, "temperature", 0, 20)
          /\ ("max_tokens" \in Names(built.errors))
                = OutOfRange(built.payload, "max_tokens", 1, 4096)
          /\ Names(built.errors) \subseteq {"message", "temperature", "max_tokens"}
    /\ built.entity = "ChatResponse" =>
          built.errors = IF Len(built.choices) = 0 THEN <<"choices">> ELSE <<>>

\* a ChatRequest with a temperature of 2.1 was rejected, naming the field
C21_Witness ==
    /\ built.entity = "ChatRequest"
    /\ ~built.ok
    /\ built.errors = <<"temperature">>
    /\ built.payload.f["temperature"] = JNum(21)

(***************************************************************************)
(* Claims about the client of an LLMService.                               *)
(***************************************************************************)
OpenClients == {i \in 1..Len(pool.clients) : pool.clients[i] = "open"}

CleanupRunning == \E k \in Cleanups : pool.closing[k] # 0

\* C22: at most one client of the service is open at any time; when a
\* cleanup has returned, every client the service created is closed and the
\* service holds none; a request made while no cleanup is running is given
\* an open client
C22_OneClientAndNoneAfterCleanup ==
    /\ Cardinality(OpenClients) <= 1
    /\ pool.returned = "cleanup" => pool.held = 0 /\ OpenClients = {}
    /\ pool.returned = "request" /\ ~CleanupRunning => pool.given = "open"

(***************************************************************************)
(* Claims about the window of messages sent to the gateway.                *)
(***************************************************************************)
\* the last n entries of a sequence, all of it when it is shorter
Tail_n(seq, n) ==
    IF Len(seq) <= n THEN seq ELSE SubSeq(seq, Len(seq) - n + 1, Len(seq))

Entries(messages) ==
    [i \in 1..Len(messages) |->
        [role |-> messages[i].role, content |-> messages[i].content]]

\* slot t has just read its window and is about to POST it
Reads(t) == tasks[t].pc = "health" /\ tasks'[t].pc = "chat"

\* the list slot t sends is the given system entries followed by the ten
\* most recent messages of its conversation as the store holds them at the
\* read, the last of them the request's own user message
WindowSent(t, system) ==
    LET sent == tasks'[t].payload.messages
        stored == conversations'[tasks'[t].conversation_id].messages
        recent == Tail_n(stored, 10)
    IN  /\ sent = system \o Entries(recent)
        /\ Len(sent) - Len(system) <= 10
        /\ sent[Len(sent)] = [role |-> "user", content |-> tasks'[t].request.message]

SystemEntry(prompt) == <<[role |-> "system", content |-> prompt.s]>>

\* C23 as stated: in every interleaving the list a request sends is its
\* system prompt, if it carries one, followed by at most 10 messages, the most
\* recent of its conversation at the read in chronological order, the last
\* of them its own user message
C23_WindowIsRecentHistory ==
    [][\A t \in Tasks : Reads(t) =>
          WindowSent(t, IF tasks'[t].request.system_prompt.t = "str"
                        THEN SystemEntry(tasks'[t].request.system_prompt)
                        ELSE <<>>)]_vars

\* C23 amended: the same, the system entry being sent for a system prompt
\* that is not the empty string
C23_WindowIsRecentHistoryNonEmptyPrompt ==
    [][\A t \in Tasks : Reads(t) =>
          WindowSent(t, IF /\ tasks'[t].request.system_prompt.t = "str"
                           /\ tasks'[t].request.system_prompt.s # <<>>
                        THEN SystemEntry(tasks'[t].request.system_prompt)
                        ELSE <<>>)]_vars

\* a request with a system prompt has sent eleven entries on a conversation
\* of more than ten messages, while the other slot is between its read and its reply
C23_Witness ==
    \E t, u \in Tasks :
        /\ t # u
        /\ tasks[t].pc = "chat"
        /\ tasks[u].pc = "chat"
        /\ tasks[t].conversation_id = tasks[u].conversation_id
        /\ Len(tasks[t].payload.messages) = 11
        /\ tasks[t].payload.messages[1].role = "system"
        /\ Len(conversations[tasks[t].conversation_id].messages) > 10

(***************************************************************************)
(* Claims about concurrent requests on one conversation.                   *)
(***************************************************************************)
Stored(convs, cid) == IF cid \in DOMAIN convs THEN Entries(convs[cid].messages) ELSE <<>>

\* slot t has just been answered with a ChatResponse
Returns(t) ==
    /\ tasks[t].pc = "chat"
    /\ tasks'[t].pc = "idle"
    /\ answered'.result.kind = "returned"

\* every conversation but cid is as it was
OthersUnchanged(cid) ==
    \A c \in DOMAIN conversations' \ {cid} :
        c \in DOMAIN conversations /\ conversations'[c] = conversations[c]

IsPrefix(p, q) == Len(p) <= Len(q) /\ SubSeq(q, 1, Len(p)) = p

\* the list slot t sent, without its system entry
HistorySent(t) ==
    LET sent == tasks[t].payload.messages
    IN  IF sent # <<>> /\ sent[1].role = "system" THEN Tail(sent) ELSE sent

\* C24: appends are atomic with respect to the other requests.  The step of
\* a request that reads its window pushes exactly its user message onto what
\* the conversation holds then, and the step that returns its ChatResponse
\* pushes exactly its assistant reply; between the two the conversation only
\* grows, so that the user message of a request is stored before its own
\* reply and two requests that overlap leave exactly four new messages
C24_AppendsAreAtomic ==
    [][\A t \in Tasks :
          /\ Reads(t) =>
                /\ Stored(conversations', tasks'[t].conversation_id)
                     = Append(Stored(conversations, tasks'[t].conversation_id),
                              [role |-> "user", content |-> tasks'[t].request.message])
                /\ OthersUnchanged(tasks'[t].conversation_id)
          /\ Returns(t) =>
                /\ Stored(conversations', tasks[t].conversation_id)
                     = Append(Stored(conversations, tasks[t].conversation_id),
                              [role |-> "assistant",
                               content |->
                                 answered'.result.response.choices[1].message.content])
                /\ OthersUnchanged(tasks[t].conversation_id)
                /\ IsPrefix(HistorySent(t),
                            Stored(conversations, tasks[t].conversation_id))
          /\ tasks[t].pc = "chat" =>
                IsPrefix(Stored(conversations, tasks[t].conversation_id),
                         Stored(conversations', tasks[t].conversation_id))]_vars

\* two requests on conversation c1 overlapped, both were answered 200, and
\* the conversation holds their four messages: the two user messages, then
\* the two replies
C24_Witness ==
    /\ \A t \in Tasks : tasks[t].pc = "idle"
    /\ answered.pc = "done"
    /\ answered.result.kind = "returned"
    /\ <<"c1">> \in DOMAIN conversations
    /\ LET stored == Stored(conversations, <<"c1">>)
       IN  /\ Len(stored) = 4
           /\ {stored[1], stored[2]} = {[role |-> "user", content |-> <<"a">>],
                                        [role |-> "user", content |-> <<"b">>]}
           /\ stored[3] = [role |-> "assistant", content |-> <<"r">>]
           /\ stored[4] = [role |-> "assistant", content |-> <<"r">>]

(***************************************************************************)
(* Claims about streamed answers to generate.                              *)
(***************************************************************************)
\* the lines of a streamed payload that are not empty
StreamLines(text) == SelectSeq(Split(strip(text), "\n"), LAMBDA line : line # <<>>)

\* a line decodes to a JSON object whose response field, if any, is a text
DecodableLine(line) ==
    /\ json_loads(line).ok
    /\ json_loads(line).value.t = "obj"
    /\ "response" \in DOMAIN json_loads(line).value.f =>
          json_loads(line).value.f["response"].t = "str"

\* the incremental text of a decodable line
LineText(line) == Get(json_loads(line).value, "response", JStr(<<>>)).s

RECURSIVE ConcatLines(_)
ConcatLines(lines) ==
    IF lines = <<>> THEN <<>> ELSE LineText(Head(lines)) \o ConcatLines(Tail(lines))

\* C25: for a line-delimited streamed answer generate returns the texts of
\* the response fields of all lines, concatenated in line order, and raises
\* an error when a line of the payload cannot be decoded
C25_StreamIsConcatenatedOrFails ==
    (probe.op = "generate" /\ probe.reply.k = "ndjson") =>
        LET lines == StreamLines(probe.reply.text)
        IN  IF \A i \in 1..Len(lines) : DecodableLine(lines[i])
            THEN /\ probe.raised = "none"
                 /\ probe.text = JStr(ConcatLines(lines))
            ELSE probe.raised # "none"

(***************************************************************************)
(* Claims about the conversation id of a request.                          *)
(***************************************************************************)
\* the id synthesized for a request that starts at second s
Synthesized(s) == <<"conv_", ToString(s)>>

\* the request of a slot carries no conversation_id
NoId(slot) == slot.request.conversation_id = JNull

\* the conversation ids of the requests in progress and answered are the
\* given ones, each read is made at the start time recorded, requests
\* without an id started in the same second share one conversation that
\* holds what each of them sent, and a ChatResponse carries the id resolved
ResolvedIds(expected(_)) ==
    /\ \A t \in Tasks : tasks[t].pc = "chat" =>
          /\ tasks[t].conversation_id = expected(tasks[t])
          /\ tasks[t].start_time <= now
          /\ IsPrefix(HistorySent(t),
                      Stored(conversations, tasks[t].conversation_id))
    /\ \A t, u \in Tasks :
          (/\ tasks[t].pc = "chat" /\ tasks[u].pc = "chat"
           /\ NoId(tasks[t]) /\ NoId(tasks[u])
           /\ tasks[t].start_time = tasks[u].start_time) =>
              tasks[t].conversation_id = tasks[u].conversation_id
    /\ (answered.pc = "done" /\ answered.result.kind = "returned") =>
          /\ answered.conversation_id = expected(answered)
          /\ answered.result.response.conversation_id = expected(answered)

\* C26 as stated: the id is the conversation_id of the request whenever it
\* carries one, and otherwise synthesized from the start time in whole
\* seconds alone; requests without an id that start in the same second
\* share one id and one history; the ChatResponse carries the resolved id
C26_IdIsGivenOrFromStartTime ==
    ResolvedIds(LAMBDA slot : IF slot.request.conversation_id.t = "str"
                              THEN slot.request.conversation_id.s
                              ELSE Synthesized(slot.start_time))

\* C26 amended: the same, an empty conversation_id being treated as none
C26_IdIsGivenNonEmptyOrFromStartTime ==
    ResolvedIds(LAMBDA slot : IF /\ slot.request.conversation_id.t = "str"
                                 /\ slot.request.conversation_id.s # <<>>
                              THEN slot.request.conversation_id.s
                              ELSE Synthesized(slot.start_time))

\* two requests without a conversation_id, started in second 1, are between
\* their read and their reply, and share conversation conv_1 with both user
\* messages in it
C26_Witness ==
    /\ tasks["t1"].pc = "chat" /\ tasks["t2"].pc = "chat"
    /\ NoId(tasks["t1"]) /\ NoId(tasks["t2"])
    /\ tasks["t1"].start_time = 1 /\ tasks["t2"].start_time = 1
    /\ tasks["t1"].conversation_id = <<"conv_", "1">>
    /\ tasks["t2"].conversation_id = <<"conv_", "1">>
    /\ Stored(conversations, <<"conv_", "1">>)
         = <<[role |-> "user", content |-> <<"a">>],
             [role |-> "user", content |-> <<"b">>]>>

(***************************************************************************)
(* Claims about the order of the steps of POST /chat.                      *)
(***************************************************************************)
\* slot t is answered in this step
Answers(t) == tasks[t].pc # "idle" /\ tasks'[t].pc = "idle"

\* a body is answered at once, without occupying a slot
AnswersAtOnce == answered' # answered /\ tasks' = tasks

\* C27: validation comes first, then the health check, then processing.  A
\* body that fails validation is answered 400 with no health check made and
\* the gateway's chat not called; a request answered 400 or 503 has not
\* called the gateway's chat and has left the store as it was
C27_RejectedBeforeAnyEffect ==
    [][/\ AnswersAtOnce =>
            /\ answered'.healthy = "unknown"
            /\ answered'.calls = 0
            /\ conversations' = conversations
       /\ \A t \in Tasks :
            (Answers(t) /\ answered'.http.status \in {400, 503}) =>
                /\ answered'.healthy # "yes"
                /\ answered'.calls = 0
                /\ conversations' = conversations]_vars

(***************************************************************************)
(* Claims about the temperature a ChatResponse reports.                    *)
(***************************************************************************)
\* C28: the temperature in the metadata of a ChatResponse is the temperature
\* option of the payload sent to the gateway for that request, whatever the
\* temperature of the request: 0.0 and null included
C28_ReportedTemperatureIsSent ==
    (answered.pc = "done" /\ answered.result.kind = "returned") =>
        answered.result.response.metadata.temperature
            = answered.payload.options.temperature

(***************************************************************************)
(* Claims about a request that fails after its user message was appended.  *)
(***************************************************************************)
\* slot t is answered in this step with the error of its gateway call or of
\* the append of its reply
FailsAfterAppend(t) ==
    /\ tasks[t].pc = "chat"
    /\ tasks'[t].pc = "idle"
    /\ answered'.result.kind = "raised"

\* C29: a request that fails after its user message was appended, because
\* the gateway's chat raised or because its reply is empty once trimmed,
\* leaves every conversation as it stood: its own still holds what the
\* request read, which ends with its user message, and no assistant message
\* is added
C29_FailureKeepsUserMessageOnly ==
    [][\A t \in Tasks : FailsAfterAppend(t) =>
          /\ conversations' = conversations
          /\ IsPrefix(HistorySent(t),
                      Stored(conversations', tasks[t].conversation_id))
          /\ HistorySent(t)[Len(HistorySent(t))]
               = [role |-> "user", content |-> tasks[t].request.message]]_vars

\* a request on a new conversation got an empty reply: it was answered with
\* an error and the conversation holds its user message alone
C29_Witness ==
    /\ answered.pc = "done"
    /\ answered.calls = 1
    /\ answered.gateway = "none"
    /\ answered.result.kind = "raised"
    /\ \A t \in Tasks : tasks[t].pc = "idle"
    /\ Stored(conversations, answered.conversation_id)
         = <<[role |-> "user", content |-> answered.request.message]>>

====
